---- MODULE Spec2Model ----
(***************************************************************************)
(* Relay engine of twitch_discord_bridge.py: the relay gate, the message   *)
(* queue, the relay loop, the stream status monitor and the slash          *)
(* commands, as the asyncio tasks of one event loop.  One action is one    *)
(* run of a task between two suspension points (awaits that really         *)
(* suspend); everything a handler does between two awaits is one step.     *)
(***************************************************************************)
EXTENDS Integers, Sequences, FiniteSets, TLC

\* ------------------------------------------------------------------ bounds
\* number of inbound chat events the chat source produces in a run
MaxEvents == 2
\* number of monitor ticks started in a run
MaxTicks == 2
\* number of slash commands issued in a run
MaxCommands == 2

\* largest value of the monotonic clock in a run
MaxClock == 100
\* number of credential exchanges in a run
MaxExchanges == 3
\* number of items (positions and groups without positions) of an emotes tag
MaxTagItems == 3
\* number of messages formatted in a run of the emoji provisioner
MaxMessages == 2
\* number of process restarts in such a run
MaxRestarts == 1
\* number of changes other users make to the emojis of the guild
MaxGuildEdits == 1
MaxReadyEvents == 3
MaxPieces == 4

\* --------------------------------------------------------- configuration
\* the safety margin _get_app_access_token takes off expires_in (seconds)
TokenMargin == 60

\* amounts by which the monotonic clock advances between two steps
ClockSteps == {10, 30}

\* values of expires_in the token endpoint answers with
ExpiresIn == {0, 50, 60, 70, 90, 130}

\* self._twitch_channels: the watched channels, lowercased by parse_channel_list
twitch_channels == <<"hikakin", "darkmasuotv">>

\* channel names an inbound event may carry (message.channel.name)
EventChannels == {"hikakin", "Hikakin", "darkmasuotv"}

\* str.lower() on the channel names of the model
Lower(s) == IF s = "Hikakin" THEN "hikakin" ELSE s

\* the channel enqueue_twitch_message compares against
TrustedChannel == "hikakin"

\* ways in which one HTTP exchange of a tick can fail
FailKinds == {"network", "non200", "malformed"}

VARIABLES
    \* ---- fields of TwitchDiscordBridge
    is_relay_paused,          \* self._is_relay_paused
    is_live_blocked,          \* self._is_live_blocked
    is_stream_status_known,   \* self._is_stream_status_known
    relay_gate,               \* self._relay_gate (asyncio.Event._value)
    message_queue,            \* self._message_queue (items in FIFO order)
    unfinished_tasks,         \* self._message_queue._unfinished_tasks
    live_channels,            \* self._live_channels
    live_streams,             \* self._live_streams
    tree_synced,              \* self._tree_synced
    twitch_task,              \* self._twitch_task
    relay_task,               \* self._relay_task
    stream_monitor_task,      \* self._stream_monitor_task
    \* ---- positions and locals of the coroutines
    readyPc,                  \* on_ready handler
    relayPc,                  \* _relay_loop
    relay,                    \* local `relay` of _relay_loop
    monPc,                    \* _stream_status_loop
    monIdx,                   \* index into twitch_channels of the GET in flight
    monLive,                  \* local live_streams of _fetch_stream_live_streams
    monRan,                   \* event loop: the monitor task has had its turn
                              \* since the future of gate.wait() was resolved
    \* ---- history variables (observation only, never read by the program)
    nextId,                   \* number of inbound events so far
    arrivedBlocked,           \* ids of events that arrived while live_blocked
    sendLog,                  \* ids in the order channel.send was invoked
    delivered,                \* ids whose channel.send returned normally
    dequeues,                 \* id -> number of times taken off the queue
    flushedIds,               \* ids in the queue at a tick that detected live
    heldAtFlush,              \* ids held in gate.wait() at such a tick
    pausedHeld,               \* id held in gate.wait() at the last pause
    ticks,                    \* number of ticks started
    commands,                 \* number of commands issued
    lastOp,                   \* the command or tick outcome that produced this
                              \* state ("other" for every other step)
    \* ---- access token cache (_get_app_access_token)
    app_access_token,         \* self._app_access_token (0: None)
    app_access_token_expires_at, \* self._app_access_token_expires_at
    clock,                    \* time.monotonic()
    tokPc,                    \* _get_app_access_token: "idle" or in the POST
    tokNow,                   \* local `now` of the call in flight
    exchanges,                \* history: credential exchanges performed
    tokResult,                \* history: how the last call ended
    \* ---- _format_message_with_emotes, lines 505-540
    tagItems,                 \* history: the items relay.emotes_tag was built of
    emotes_tag,               \* relay.emotes_tag, one character per element
    fmtPc,                    \* "idle", "loop" (in the sorted loop) or "done"
    fmtEntries,               \* sorted(entries) not yet iterated over
    fmtProcessed,             \* history: the spans the loop has processed
    fmtCursor,                \* local `cursor`
    fmtRaised,                \* history: an exception left the parsing
    \* ---- emoji provisioning (_ensure_discord_emoji and its callers)
    emoji_cache,              \* self._emoji_cache: cache key -> emoji id
    guild_emojis,             \* guild.emojis; `origin` is history: the emote
                              \* an emoji was created for
    nextEmojiId,              \* the id the guild gives the next emoji
    asPc,                     \* relay loop in the formatting of a message
    asMsg,                    \* the message being formatted
    asIdx,                    \* index of the url candidate being fetched
    asParts,                  \* local `parts`
    asTried,                  \* history: the GETs of the current message
    asCall,                   \* history: the current/last call of ensure
    asPrev,                   \* history: key, result and outcome of the
                              \* call before it
    asMessages,               \* history: messages formatted so far
    asRestarts,               \* history: restarts so far
    asEdits,                  \* history: changes by other users so far
    \* ---- close()
    clPc,                     \* close(): "idle" before the call, the await it
                              \* is at, "done" (returned) or "raised"
    twitch_client,            \* self._twitch_client: "open" or "closed"
    http_session,             \* self._http_session: "None" or "open"
    \* ---- on_ready handlers running side by side
    rdPc,                     \* one element per ready event: "sync" (in
                              \* tree.sync()), "warm" (in
                              \* _warm_custom_emotes()), "done", "raised"
    rdCreated,                \* history: asyncio.create_task calls per field
    rdOverlap,                \* history: two handlers were in the warm-up
                              \* at the same time
    \* ---- _format_message_with_emotes on the characters of the content
    sbPc,                     \* "idle", "ensure" (awaiting
                              \* _ensure_discord_emoji), "done", "raised"
    sbMsg,                    \* the RelayMessage being formatted
    sbEntries,                \* sorted(entries) from the current span on
    sbCursor,                 \* local `cursor`
    sbParts,                  \* ''.join(parts): one character or one
                              \* str(emoji) per element
    sbLog                     \* history: the substrings given to
                              \* _ensure_discord_emoji ("span") and to
                              \* _replace_custom_tokens ("text"), in order,
                              \* each with the str appended to parts for it

bridge == <<is_relay_paused, is_live_blocked, is_stream_status_known,
            relay_gate, message_queue, unfinished_tasks, live_channels,
            live_streams, tree_synced, twitch_task, relay_task,
            stream_monitor_task>>
coros == <<readyPc, relayPc, relay, monPc, monIdx, monLive, monRan>>
history == <<nextId, arrivedBlocked, sendLog, delivered, dequeues,
             flushedIds, heldAtFlush, pausedHeld, ticks, commands, lastOp>>
tokenVars == <<app_access_token, app_access_token_expires_at, clock, tokPc,
               tokNow, exchanges, tokResult>>
fmtVars == <<tagItems, emotes_tag, fmtPc, fmtEntries, fmtProcessed,
             fmtCursor, fmtRaised>>
assetVars == <<emoji_cache, guild_emojis, nextEmojiId, asPc, asMsg, asIdx,
               asParts, asTried, asCall, asPrev, asMessages, asRestarts,
               asEdits>>
closeVars == <<clPc, twitch_client, http_session>>
readyVars == <<rdPc, rdCreated, rdOverlap>>
substVars == <<sbPc, sbMsg, sbEntries, sbCursor, sbParts, sbLog>>
extraVars == <<readyVars, substVars>>
aux == <<tokenVars, fmtVars, assetVars, closeVars, extraVars>>
nonToken == <<bridge, coros, history, fmtVars, assetVars, closeVars,
              extraVars>>
nonFmt == <<bridge, coros, history, tokenVars, assetVars, closeVars,
            extraVars>>
nonAsset == <<bridge, coros, history, tokenVars, fmtVars, closeVars,
              extraVars>>
vars == <<bridge, coros, history, aux>>

Ids == 1..(MaxEvents + 1)

\* ----------------------------------------------------------------- helpers
\* the elements of a sequence
Range(s) == {s[i] : i \in DOMAIN s}

\* StreamInfo built for a live entry (only the key is kept)
StreamInfo(login) == [user_login |-> login]

\* _refresh_relay_gate: the value the Event has after the call
RefreshRelayGate(known, paused, blocked) == known /\ ~paused /\ ~blocked

\* asyncio.Event.set()/clear() seen from the relay loop: set() on a cleared
\* event resolves the future of a coroutine suspended in wait(); clear()
\* does not take that back.
WakeWaiters(pc, oldGate, newGate) ==
    IF pc = "waiting" /\ ~oldGate /\ newGate THEN "woken" ELSE pc

\* variant of ClearMessageQueue that takes one item instead of looping
ClearMessageQueue_Once(q) == IF q = <<>> THEN q ELSE Tail(q)

\* _clear_message_queue: get_nowait() until QueueEmpty
ClearMessageQueue(q) == <<>>

\* variant of QueuePut that inserts at the front (LIFO)
QueuePut_Front(q, m) == <<m>> \o q

\* variant of QueueRest that leaves the item in the queue
QueueRest_Keep(q) == q

\* asyncio.Queue.put on the FIFO
QueuePut(q, m) == Append(q, m)

\* asyncio.Queue.get: the item returned
QueueFront(q) == Head(q)

\* asyncio.Queue.get: the queue left behind
QueueRest(q) == Tail(q)

\* variant of IngestionDrops that tests the manual pause only
IngestionDrops_PauseOnly(paused, blocked) == paused

\* enqueue_twitch_message, first test: drop while paused or live-blocked
IngestionDrops(paused, blocked) == paused \/ blocked

\* variant of IsTrusted that lets every watched channel through
IsTrusted_AnyWatched(channel_name) ==
    Lower(channel_name) \in Range(twitch_channels)

\* enqueue_twitch_message, channel test
IsTrusted(channel_name) == Lower(channel_name) = TrustedChannel

\* the ids of the messages in a queue
QueueIds(q) == {q[k].id : k \in DOMAIN q}

\* history: one more dequeue for every id that q holds and q2 does not
CountRemoved(d, q, q2) ==
    [i \in Ids |-> IF i \in QueueIds(q) \ QueueIds(q2) THEN d[i] + 1 ELSE d[i]]

\* the local `relay` when the relay loop holds no message
NoRelay == [id |-> 0, channel_name |-> ""]

\* asyncio.Event.wait() once its future is resolved: it returns True without
\* looking at the flag again, and _relay_loop goes on to _resolve_channel
AfterWake(gate) == "resolve"

\* event loop order: the wake-up of the relay task is queued behind the
\* callbacks that were ready when the future of gate.wait() was resolved, so
\* before the relay task resumes every other task runs at most one step; the
\* monitor task is one task, commands and chat events are a task each
MonitorMayRun == relayPc = "woken" => ~monRan

\* is the relay loop inside `await self._relay_gate.wait()`
InGateWait == relayPc \in {"waiting", "woken"}

\* ------------------------------------------------------------------- Init
\* the call record before any call of _get_app_access_token
NoTokenCall == [how |-> "none", at |-> 0, hadToken |-> FALSE,
                priorToken |-> 0, priorExpiry |-> 0, token |-> 0,
                expires_in |-> 0, exch |-> 0]

\* __init__: no token, expiry 0.0
TokenIdle ==
    /\ app_access_token = 0
    /\ app_access_token_expires_at = 0
    /\ clock = 0
    /\ tokPc = "idle"
    /\ tokNow = 0
    /\ exchanges = 0
    /\ tokResult = NoTokenCall

\* no message is being formatted
FormatIdle ==
    /\ tagItems = <<>>
    /\ emotes_tag = <<>>
    /\ fmtPc = "idle"
    /\ fmtEntries = <<>>
    /\ fmtProcessed = <<>>
    /\ fmtCursor = 0
    /\ fmtRaised = FALSE

\* the value of image_url when the caller passes None
NoUrl == ""

\* no message at the formatter
NoMessage == [emote_id |-> "", name |-> "", tail |-> <<>>]

\* the record of a call of _ensure_discord_emoji before any call
NoCall == [emote_id |-> "", name |-> "", key |-> "", hadKey |-> FALSE,
           cached |-> 0, prior |-> {}, prevPresent |-> FALSE,
           sameProcess |-> FALSE,
           downloads |-> 0, creates |-> 0, result |-> 0, how |-> "nocall"]

\* what is kept of a call for the call after it
NoPrev == [key |-> "", result |-> 0, how |-> "nocall"]

\* __init__ line 220: the emoji cache is empty; the guild has no tw_ emoji
AssetIdle ==
    /\ emoji_cache = [k \in {} |-> 0]
    /\ guild_emojis = {}
    /\ nextEmojiId = 1
    /\ asPc = "idle"
    /\ asMsg = NoMessage
    /\ asIdx = 0
    /\ asParts = <<>>
    /\ asTried = <<>>
    /\ asCall = NoCall
    /\ asPrev = NoPrev
    /\ asMessages = 0
    /\ asRestarts = 0
    /\ asEdits = 0

\* close() has not been called; __init__ line 214: no HTTP session yet
CloseIdle ==
    /\ clPc = "idle"
    /\ twitch_client = "open"
    /\ http_session = "None"

\* no ready event has been dispatched
ReadyIdle ==
    /\ rdPc = <<>>
    /\ rdCreated = [twitch |-> 0, relay |-> 0, monitor |-> 0]
    /\ rdOverlap = FALSE

\* no message at the character-level formatter
NoSubstMessage ==
    [display_name |-> <<>>, channel_name |-> "", content |-> <<>>,
     emotes_tag |-> <<>>]

SubstIdle ==
    /\ sbPc = "idle"
    /\ sbMsg = NoSubstMessage
    /\ sbEntries = <<>>
    /\ sbCursor = 0
    /\ sbParts = <<>>
    /\ sbLog = <<>>

\* the fields the relay engine reads, after __init__
BridgeInit ==
    /\ is_relay_paused = FALSE
    /\ is_live_blocked = FALSE
    /\ is_stream_status_known = FALSE
    /\ relay_gate = RefreshRelayGate(FALSE, FALSE, FALSE)
    /\ message_queue = <<>>
    /\ unfinished_tasks = 0
    /\ live_channels = {}
    /\ live_streams = [c \in {} |-> StreamInfo(c)]
    /\ tree_synced = FALSE
    /\ twitch_task = "None"
    /\ relay_task = "None"
    /\ stream_monitor_task = "None"
    /\ readyPc = "idle"
    /\ relayPc = "none"
    /\ relay = NoRelay
    /\ monPc = "none"
    /\ monIdx = 0
    /\ monLive = {}
    /\ monRan = FALSE
    /\ nextId = 0
    /\ arrivedBlocked = {}
    /\ sendLog = <<>>
    /\ delivered = {}
    /\ dequeues = [i \in Ids |-> 0]
    /\ flushedIds = {}
    /\ heldAtFlush = {}
    /\ pausedHeld = 0
    /\ ticks = 0
    /\ commands = 0
    /\ lastOp = "init"

\* the state after construction
Init ==
    /\ BridgeInit
    /\ TokenIdle
    /\ FormatIdle
    /\ AssetIdle
    /\ CloseIdle
    /\ ReadyIdle
    /\ SubstIdle

\* --------------------------------------------------------------- on_ready
\* on_ready up to its first await: tree.sync() when not yet synced,
\* otherwise _warm_custom_emotes()
OnReadyStart ==
    /\ readyPc = "idle"
    /\ readyPc' = IF ~tree_synced THEN "sync" ELSE "warm"
    /\ lastOp' = "other"
    /\ UNCHANGED <<bridge, relayPc, relay, monPc, monIdx, monLive, monRan>>
    /\ UNCHANGED <<nextId, arrivedBlocked, sendLog, delivered, dequeues,
                   flushedIds, heldAtFlush, pausedHeld, ticks, commands>>
    /\ UNCHANGED aux

\* tree.sync() returned
OnReadySynced ==
    /\ readyPc = "sync"
    /\ tree_synced' = TRUE
    /\ readyPc' = "warm"
    /\ lastOp' = "other"
    /\ UNCHANGED <<is_relay_paused, is_live_blocked, is_stream_status_known,
                   relay_gate, message_queue, unfinished_tasks, live_channels,
                   live_streams, twitch_task, relay_task, stream_monitor_task>>
    /\ UNCHANGED <<relayPc, relay, monPc, monIdx, monLive, monRan>>
    /\ UNCHANGED <<nextId, arrivedBlocked, sendLog, delivered, dequeues,
                   flushedIds, heldAtFlush, pausedHeld, ticks, commands>>
    /\ UNCHANGED aux

\* tree.sync() raised: the handler ends, nothing was created
OnReadySyncFailed ==
    /\ readyPc = "sync"
    /\ readyPc' = "idle"
    /\ lastOp' = "other"
    /\ UNCHANGED <<bridge, relayPc, relay, monPc, monIdx, monLive, monRan>>
    /\ UNCHANGED <<nextId, arrivedBlocked, sendLog, delivered, dequeues,
                   flushedIds, heldAtFlush, pausedHeld, ticks, commands>>
    /\ UNCHANGED aux

\* _warm_custom_emotes() returned: each task is created if its field is None
OnReadyCreateTasks ==
    /\ readyPc = "warm"
    /\ readyPc' = "idle"
    /\ twitch_task' = IF twitch_task = "None" THEN "running" ELSE twitch_task
    /\ relay_task' = IF relay_task = "None" THEN "running" ELSE relay_task
    /\ relayPc' = IF relay_task = "None" THEN "get" ELSE relayPc
    /\ stream_monitor_task' =
          IF stream_monitor_task = "None" THEN "running" ELSE stream_monitor_task
    /\ monPc' = IF stream_monitor_task = "None" THEN "sleep" ELSE monPc
    /\ lastOp' = "other"
    /\ UNCHANGED <<is_relay_paused, is_live_blocked, is_stream_status_known,
                   relay_gate, message_queue, unfinished_tasks, live_channels,
                   live_streams, tree_synced>>
    /\ UNCHANGED <<relay, monIdx, monLive, monRan>>
    /\ UNCHANGED <<nextId, arrivedBlocked, sendLog, delivered, dequeues,
                   flushedIds, heldAtFlush, pausedHeld, ticks, commands>>
    /\ UNCHANGED aux

\* ---------------------------------------------------------- slash commands
\* variant of StopCommand that sets the flag and flushes the queue but does
\* not call _refresh_relay_gate
StopCommand_NoRefresh ==
    /\ commands < MaxCommands
    /\ commands' = commands + 1
    /\ IF is_relay_paused
       THEN /\ lastOp' = "other"
            /\ UNCHANGED <<bridge, coros, pausedHeld, flushedIds, heldAtFlush,
                           dequeues>>
       ELSE /\ is_relay_paused' = TRUE
            /\ message_queue' = ClearMessageQueue(message_queue)
            /\ unfinished_tasks' =
                  unfinished_tasks - (Len(message_queue) - Len(message_queue'))
            /\ dequeues' = CountRemoved(dequeues, message_queue, message_queue')
            /\ pausedHeld' = IF InGateWait /\ ~is_live_blocked THEN relay.id ELSE 0
            /\ lastOp' = "pause"
            /\ UNCHANGED <<is_live_blocked, is_stream_status_known, relay_gate,
                           live_channels, live_streams, tree_synced,
                           twitch_task, relay_task, stream_monitor_task>>
            /\ UNCHANGED coros
            /\ UNCHANGED <<flushedIds, heldAtFlush>>
    /\ UNCHANGED <<nextId, arrivedBlocked, sendLog, delivered, ticks>>
    /\ UNCHANGED aux

\* variant of StopCommand that sets the flag and refreshes the gate but leaves
\* the queued messages where they are
StopCommand_NoClear ==
    /\ commands < MaxCommands
    /\ commands' = commands + 1
    /\ IF is_relay_paused
       THEN /\ lastOp' = "other"
            /\ UNCHANGED <<bridge, coros, pausedHeld, flushedIds, heldAtFlush,
                           dequeues>>
       ELSE /\ is_relay_paused' = TRUE
            /\ relay_gate' = RefreshRelayGate(is_stream_status_known, TRUE,
                                              is_live_blocked)
            /\ relayPc' = WakeWaiters(relayPc, relay_gate, relay_gate')
            /\ pausedHeld' = IF InGateWait /\ ~is_live_blocked THEN relay.id ELSE 0
            /\ lastOp' = "pause"
            /\ UNCHANGED <<is_live_blocked, is_stream_status_known,
                           message_queue, unfinished_tasks,
                           live_channels, live_streams, tree_synced,
                           twitch_task, relay_task, stream_monitor_task>>
            /\ UNCHANGED <<readyPc, relay, monPc, monIdx, monLive, monRan>>
            /\ UNCHANGED <<flushedIds, heldAtFlush, dequeues>>
    /\ UNCHANGED <<nextId, arrivedBlocked, sendLog, delivered, ticks>>
    /\ UNCHANGED aux

\* stop_command
StopCommand ==
    /\ commands < MaxCommands
    /\ commands' = commands + 1
    /\ IF is_relay_paused
       THEN /\ lastOp' = "other"
            /\ UNCHANGED <<bridge, coros, pausedHeld, flushedIds, heldAtFlush,
                           dequeues>>
       ELSE /\ is_relay_paused' = TRUE
            /\ relay_gate' = RefreshRelayGate(is_stream_status_known, TRUE,
                                              is_live_blocked)
            /\ relayPc' = WakeWaiters(relayPc, relay_gate, relay_gate')
            /\ message_queue' = ClearMessageQueue(message_queue)
            /\ unfinished_tasks' =
                  unfinished_tasks - (Len(message_queue) - Len(message_queue'))
            /\ dequeues' = CountRemoved(dequeues, message_queue, message_queue')
            /\ pausedHeld' = IF InGateWait /\ ~is_live_blocked THEN relay.id ELSE 0
            /\ lastOp' = "pause"
            /\ UNCHANGED <<is_live_blocked, is_stream_status_known,
                           live_channels, live_streams, tree_synced,
                           twitch_task, relay_task, stream_monitor_task>>
            /\ UNCHANGED <<readyPc, relay, monPc, monIdx, monLive, monRan>>
            /\ UNCHANGED <<flushedIds, heldAtFlush>>
    /\ UNCHANGED <<nextId, arrivedBlocked, sendLog, delivered, ticks>>
    /\ UNCHANGED aux

\* variant of StartCommand that lifts the pause without looking at
\* _is_stream_status_known
StartCommand_IgnoreKnown ==
    /\ commands < MaxCommands
    /\ commands' = commands + 1
    /\ pausedHeld' = 0
    /\ IF ~is_relay_paused
       THEN /\ lastOp' = "resume_noop"
            /\ UNCHANGED <<bridge, coros>>
       ELSE /\ is_relay_paused' = FALSE
            /\ relay_gate' = RefreshRelayGate(is_stream_status_known, FALSE,
                                              is_live_blocked)
            /\ relayPc' = WakeWaiters(relayPc, relay_gate, relay_gate')
            /\ lastOp' = "resume"
            /\ UNCHANGED <<is_live_blocked, is_stream_status_known,
                           message_queue, unfinished_tasks, live_channels,
                           live_streams, tree_synced, twitch_task, relay_task,
                           stream_monitor_task>>
            /\ UNCHANGED <<readyPc, relay, monPc, monIdx, monLive, monRan>>
    /\ UNCHANGED <<nextId, arrivedBlocked, sendLog, delivered, dequeues,
                   flushedIds, heldAtFlush, ticks>>
    /\ UNCHANGED aux

\* start_command
StartCommand ==
    /\ commands < MaxCommands
    /\ commands' = commands + 1
    /\ pausedHeld' = 0
    /\ IF ~is_stream_status_known \/ ~is_relay_paused
       THEN /\ lastOp' = "resume_noop"
            /\ UNCHANGED <<bridge, coros>>
       ELSE /\ is_relay_paused' = FALSE
            /\ relay_gate' = RefreshRelayGate(is_stream_status_known, FALSE,
                                              is_live_blocked)
            /\ relayPc' = WakeWaiters(relayPc, relay_gate, relay_gate')
            /\ lastOp' = "resume"
            /\ UNCHANGED <<is_live_blocked, is_stream_status_known,
                           message_queue, unfinished_tasks, live_channels,
                           live_streams, tree_synced, twitch_task, relay_task,
                           stream_monitor_task>>
            /\ UNCHANGED <<readyPc, relay, monPc, monIdx, monLive, monRan>>
    /\ UNCHANGED <<nextId, arrivedBlocked, sendLog, delivered, dequeues,
                   flushedIds, heldAtFlush, ticks>>
    /\ UNCHANGED aux

\* watch_command: reads the flags and the live-stream map, writes nothing
WatchCommand ==
    /\ commands < MaxCommands
    /\ commands' = commands + 1
    /\ lastOp' = "other"
    /\ UNCHANGED <<bridge, coros>>
    /\ UNCHANGED <<nextId, arrivedBlocked, sendLog, delivered, dequeues,
                   flushedIds, heldAtFlush, pausedHeld, ticks>>
    /\ UNCHANGED aux

\* -------------------------------------------------------------- ingestion
\* TwitchMessageClient.event_message followed by enqueue_twitch_message for
\* one inbound event; put() on the unbounded queue never suspends
InboundEvent(echo, content, channel_name) ==
    /\ twitch_task = "running"
    /\ nextId < MaxEvents
    /\ nextId' = nextId + 1
    /\ arrivedBlocked' = IF is_live_blocked
                         THEN arrivedBlocked \cup {nextId + 1}
                         ELSE arrivedBlocked
    /\ IF \/ echo
          \/ content = ""
          \/ IngestionDrops(is_relay_paused, is_live_blocked)
          \/ ~IsTrusted(channel_name)
       THEN /\ lastOp' = "other"
            /\ UNCHANGED <<message_queue, unfinished_tasks>>
       ELSE /\ message_queue' =
                  QueuePut(message_queue,
                           [id |-> nextId + 1, channel_name |-> channel_name])
            /\ unfinished_tasks' = unfinished_tasks + 1
            /\ lastOp' = "other"
    /\ UNCHANGED <<is_relay_paused, is_live_blocked, is_stream_status_known,
                   relay_gate, live_channels, live_streams, tree_synced,
                   twitch_task, relay_task, stream_monitor_task>>
    /\ UNCHANGED coros
    /\ UNCHANGED <<sendLog, delivered, dequeues, flushedIds, heldAtFlush,
                   pausedHeld, ticks, commands>>
    /\ UNCHANGED aux

\* -------------------------------------------------------------- relay loop
\* `relay = await queue.get()` with an item available, then gate.wait():
\* an open gate lets the loop go on at once, a closed one suspends it
RelayGet ==
    /\ relayPc = "get"
    /\ message_queue # <<>>
    /\ relay' = QueueFront(message_queue)
    /\ message_queue' = QueueRest(message_queue)
    /\ dequeues' = [dequeues EXCEPT ![relay'.id] = @ + 1]
    /\ relayPc' = IF relay_gate THEN "resolve" ELSE "waiting"
    /\ lastOp' = "other"
    /\ UNCHANGED <<is_relay_paused, is_live_blocked, is_stream_status_known,
                   relay_gate, unfinished_tasks, live_channels, live_streams,
                   tree_synced, twitch_task, relay_task, stream_monitor_task>>
    /\ UNCHANGED <<readyPc, monPc, monIdx, monLive, monRan>>
    /\ UNCHANGED <<nextId, arrivedBlocked, sendLog, delivered, flushedIds,
                   heldAtFlush, pausedHeld, ticks, commands>>
    /\ UNCHANGED aux

\* the relay task resumes after the future of gate.wait() was resolved
RelayWake ==
    /\ relayPc = "woken"
    /\ relayPc' = AfterWake(relay_gate)
    /\ monRan' = FALSE
    /\ lastOp' = "other"
    /\ UNCHANGED <<bridge, readyPc, relay, monPc, monIdx, monLive>>
    /\ UNCHANGED <<nextId, arrivedBlocked, sendLog, delivered, dequeues,
                   flushedIds, heldAtFlush, pausedHeld, ticks, commands>>
    /\ UNCHANGED aux

\* _resolve_channel returned a Messageable
RelayResolved ==
    /\ relayPc = "resolve"
    /\ relayPc' = "format"
    /\ lastOp' = "other"
    /\ UNCHANGED <<bridge, readyPc, relay, monPc, monIdx, monLive, monRan>>
    /\ UNCHANGED <<nextId, arrivedBlocked, sendLog, delivered, dequeues,
                   flushedIds, heldAtFlush, pausedHeld, ticks, commands>>
    /\ UNCHANGED aux

\* _format_message_with_emotes returned; channel.send(formatted) is invoked
RelayFormatted ==
    /\ relayPc = "format"
    /\ relayPc' = "send"
    /\ sendLog' = Append(sendLog, relay.id)
    /\ lastOp' = "other"
    /\ UNCHANGED <<bridge, readyPc, relay, monPc, monIdx, monLive, monRan>>
    /\ UNCHANGED <<nextId, arrivedBlocked, delivered, dequeues, flushedIds,
                   heldAtFlush, pausedHeld, ticks, commands>>
    /\ UNCHANGED aux

\* channel.send returned; finally: task_done(); back to queue.get()
RelaySent ==
    /\ relayPc = "send"
    /\ delivered' = delivered \cup {relay.id}
    /\ unfinished_tasks' = unfinished_tasks - 1
    /\ relay' = NoRelay
    /\ relayPc' = "get"
    /\ lastOp' = "other"
    /\ UNCHANGED <<is_relay_paused, is_live_blocked, is_stream_status_known,
                   relay_gate, message_queue, live_channels, live_streams,
                   tree_synced, twitch_task, relay_task, stream_monitor_task>>
    /\ UNCHANGED <<readyPc, monPc, monIdx, monLive, monRan>>
    /\ UNCHANGED <<nextId, arrivedBlocked, sendLog, dequeues, flushedIds,
                   heldAtFlush, pausedHeld, ticks, commands>>
    /\ UNCHANGED aux

\* _resolve_channel, _format_message_with_emotes or channel.send raised:
\* finally: task_done(); there is no except clause, so the exception leaves
\* the coroutine and the task is done with that exception
RelayBodyRaises ==
    /\ relayPc \in {"resolve", "format", "send"}
    /\ unfinished_tasks' = unfinished_tasks - 1
    /\ relay' = NoRelay
    /\ relayPc' = "failed"
    /\ relay_task' = "failed"
    /\ lastOp' = "other"
    /\ UNCHANGED <<is_relay_paused, is_live_blocked, is_stream_status_known,
                   relay_gate, message_queue, live_channels, live_streams,
                   tree_synced, twitch_task, stream_monitor_task>>
    /\ UNCHANGED <<readyPc, monPc, monIdx, monLive, monRan>>
    /\ UNCHANGED <<nextId, arrivedBlocked, sendLog, delivered, dequeues,
                   flushedIds, heldAtFlush, pausedHeld, ticks, commands>>
    /\ UNCHANGED aux

\* ---------------------------------------------------------- status monitor
\* a tick begins: _fetch_stream_live_streams awaits _get_app_access_token
TickStart ==
    /\ monPc = "sleep"
    /\ MonitorMayRun
    /\ ticks < MaxTicks
    /\ ticks' = ticks + 1
    /\ monPc' = "token"
    /\ monRan' = (relayPc = "woken")
    /\ lastOp' = "other"
    /\ UNCHANGED <<bridge, readyPc, relayPc, relay, monIdx, monLive>>
    /\ UNCHANGED <<nextId, arrivedBlocked, sendLog, delivered, dequeues,
                   flushedIds, heldAtFlush, pausedHeld, commands>>
    /\ UNCHANGED aux

\* the token is there: live_streams = {} and the GET for the first channel
TickToken ==
    /\ monPc = "token"
    /\ MonitorMayRun
    /\ monPc' = "fetch"
    /\ monIdx' = 1
    /\ monLive' = {}
    /\ monRan' = (relayPc = "woken")
    /\ lastOp' = "other"
    /\ UNCHANGED <<bridge, readyPc, relayPc, relay>>
    /\ UNCHANGED <<nextId, arrivedBlocked, sendLog, delivered, dequeues,
                   flushedIds, heldAtFlush, pausedHeld, ticks, commands>>
    /\ UNCHANGED aux

\* variant of TickCommit that flushes the queue after every successful poll,
\* live or not
TickCommit_AlwaysClear(found) ==
    /\ live_channels' = found
    /\ live_streams' = [c \in found |-> StreamInfo(c)]
    /\ is_live_blocked' = (found # {})
    /\ is_stream_status_known' = TRUE
    /\ message_queue' = ClearMessageQueue(message_queue)
    /\ unfinished_tasks' =
          unfinished_tasks - (Len(message_queue) - Len(message_queue'))
    /\ dequeues' = CountRemoved(dequeues, message_queue, message_queue')
    /\ relay_gate' = RefreshRelayGate(TRUE, is_relay_paused, is_live_blocked')
    /\ relayPc' = WakeWaiters(relayPc, relay_gate, relay_gate')
    /\ flushedIds' = IF is_live_blocked'
                     THEN flushedIds \cup QueueIds(message_queue)
                     ELSE flushedIds
    /\ heldAtFlush' = IF is_live_blocked' /\ InGateWait
                      THEN heldAtFlush \cup {relay.id}
                      ELSE heldAtFlush
    /\ lastOp' = IF is_live_blocked' THEN "tick_live" ELSE "tick_clear"
    /\ UNCHANGED <<is_relay_paused, tree_synced, twitch_task, relay_task,
                   stream_monitor_task>>

\* the part of _stream_status_loop after _fetch_stream_live_streams returned
\* `found`: no await in it, so it runs in the step of the last response
TickCommit(found) ==
    /\ live_channels' = found
    /\ live_streams' = [c \in found |-> StreamInfo(c)]
    /\ is_live_blocked' = (found # {})
    /\ is_stream_status_known' = TRUE
    /\ message_queue' = IF is_live_blocked'
                        THEN ClearMessageQueue(message_queue)
                        ELSE message_queue
    /\ unfinished_tasks' =
          unfinished_tasks - (Len(message_queue) - Len(message_queue'))
    /\ dequeues' = CountRemoved(dequeues, message_queue, message_queue')
    /\ relay_gate' = RefreshRelayGate(TRUE, is_relay_paused, is_live_blocked')
    /\ relayPc' = WakeWaiters(relayPc, relay_gate, relay_gate')
    /\ flushedIds' = IF is_live_blocked'
                     THEN flushedIds \cup QueueIds(message_queue)
                     ELSE flushedIds
    /\ heldAtFlush' = IF is_live_blocked' /\ InGateWait
                      THEN heldAtFlush \cup {relay.id}
                      ELSE heldAtFlush
    /\ lastOp' = IF is_live_blocked' THEN "tick_live" ELSE "tick_clear"
    /\ UNCHANGED <<is_relay_paused, tree_synced, twitch_task, relay_task,
                   stream_monitor_task>>

\* the GET for twitch_channels[monIdx] answered 200 with a well-formed
\* payload in which the channel is live or not
TickResponse(live) ==
    /\ monPc = "fetch"
    /\ MonitorMayRun
    /\ LET found == IF live THEN monLive \cup {twitch_channels[monIdx]}
                            ELSE monLive
       IN IF monIdx < Len(twitch_channels)
          THEN /\ monIdx' = monIdx + 1
               /\ monLive' = found
               /\ monPc' = "fetch"
               /\ lastOp' = "other"
               /\ UNCHANGED <<bridge, relayPc, dequeues, flushedIds, heldAtFlush>>
          ELSE /\ TickCommit(found)
               /\ monPc' = "sleep"
               /\ monIdx' = 0
               /\ monLive' = {}
    /\ monRan' = (relayPc' = "woken")
    /\ UNCHANGED <<readyPc, relay>>
    /\ UNCHANGED <<nextId, arrivedBlocked, sendLog, delivered, pausedHeld,
                   ticks, commands>>
    /\ UNCHANGED aux

\* variant of TickFails in which the channels found so far were already
\* stored in self._live_channels when the exception arrives
TickFails_Partial(kind) ==
    /\ monPc \in {"token", "fetch"}
    /\ MonitorMayRun
    /\ monRan' = (relayPc = "woken")
    /\ monPc' = "sleep"
    /\ monIdx' = 0
    /\ monLive' = {}
    /\ live_channels' = IF monPc = "fetch" THEN monLive ELSE live_channels
    /\ lastOp' = "tick_fail"
    /\ UNCHANGED <<is_relay_paused, is_live_blocked, is_stream_status_known,
                   relay_gate, message_queue, unfinished_tasks, live_streams,
                   tree_synced, twitch_task, relay_task, stream_monitor_task>>
    /\ UNCHANGED <<readyPc, relayPc, relay>>
    /\ UNCHANGED <<nextId, arrivedBlocked, sendLog, delivered, dequeues,
                   flushedIds, heldAtFlush, pausedHeld, ticks, commands>>
    /\ UNCHANGED aux

\* variant of TickFails whose handler marks the stream status as unknown
\* again and refreshes the gate
TickFails_Forget(kind) ==
    /\ monPc \in {"token", "fetch"}
    /\ MonitorMayRun
    /\ monRan' = (relayPc = "woken")
    /\ monPc' = "sleep"
    /\ monIdx' = 0
    /\ monLive' = {}
    /\ is_stream_status_known' = FALSE
    /\ relay_gate' = RefreshRelayGate(FALSE, is_relay_paused, is_live_blocked)
    /\ lastOp' = "tick_fail"
    /\ UNCHANGED <<is_relay_paused, is_live_blocked, message_queue,
                   unfinished_tasks, live_channels, live_streams,
                   tree_synced, twitch_task, relay_task, stream_monitor_task>>
    /\ UNCHANGED <<readyPc, relayPc, relay>>
    /\ UNCHANGED <<nextId, arrivedBlocked, sendLog, delivered, dequeues,
                   flushedIds, heldAtFlush, pausedHeld, ticks, commands>>
    /\ UNCHANGED aux

\* the token exchange or a GET raised (network error, status other than 200,
\* malformed payload): except Exception logs, then asyncio.sleep
TickFails(kind) ==
    /\ monPc \in {"token", "fetch"}
    /\ MonitorMayRun
    /\ monRan' = (relayPc = "woken")
    /\ monPc' = "sleep"
    /\ monIdx' = 0
    /\ monLive' = {}
    /\ lastOp' = "tick_fail"
    /\ UNCHANGED <<bridge, readyPc, relayPc, relay>>
    /\ UNCHANGED <<nextId, arrivedBlocked, sendLog, delivered, dequeues,
                   flushedIds, heldAtFlush, pausedHeld, ticks, commands>>
    /\ UNCHANGED aux

\* ------------------------------------------------------------------- Next
Next ==
    \/ OnReadyStart
    \/ OnReadySynced
    \/ OnReadySyncFailed
    \/ OnReadyCreateTasks
    \/ StopCommand
    \/ StartCommand
    \/ WatchCommand
    \/ \E echo \in BOOLEAN, content \in {"", "hi"}, ch \in EventChannels :
          InboundEvent(echo, content, ch)
    \/ RelayGet
    \/ RelayWake
    \/ RelayResolved
    \/ RelayFormatted
    \/ RelaySent
    \/ RelayBodyRaises
    \/ TickStart
    \/ TickToken
    \/ \E live \in BOOLEAN : TickResponse(live)
    \/ \E kind \in FailKinds : TickFails(kind)

Spec == Init /\ [][Next]_vars

\* ---------------------------------------------------------- type invariant
TypeOK ==
    /\ is_relay_paused \in BOOLEAN
    /\ is_live_blocked \in BOOLEAN
    /\ is_stream_status_known \in BOOLEAN
    /\ relay_gate \in BOOLEAN
    /\ QueueIds(message_queue) \subseteq Ids
    /\ unfinished_tasks \in Nat
    /\ live_channels \subseteq Range(twitch_channels)
    /\ DOMAIN live_streams = live_channels
    /\ relayPc \in {"none", "get", "waiting", "woken", "resolve", "format",
                    "send", "failed", "cancelled"}
    /\ monPc \in {"none", "sleep", "token", "fetch", "cancelled"}
    /\ readyPc \in {"idle", "sync", "warm"}

\* task_done() is never called more often than put(): the ValueError of
\* asyncio.Queue.task_done cannot occur
TaskDoneNeverRaises ==
    unfinished_tasks = Len(message_queue) + (IF relay = NoRelay THEN 0 ELSE 1)

\* ===================================================== access token cache
\* max(a, b)
Max(a, b) == IF a >= b THEN a ELSE b

\* variant of TokenIsFresh that still accepts the token at its expiry instant
TokenIsFresh_Inclusive(token, now, expires_at) ==
    token # 0 /\ now <= expires_at

\* line 661: `self._app_access_token and now < self._app_access_token_expires_at`
TokenIsFresh(token, now, expires_at) == token # 0 /\ now < expires_at

\* line 679: now + max(expires_in - 60, 0)
NewExpiry(now, expires_in) == now + Max(expires_in - TokenMargin, 0)

\* time passes
ClockAdvance(d) ==
    /\ clock + d <= MaxClock
    /\ clock' = clock + d
    /\ UNCHANGED <<app_access_token, app_access_token_expires_at, tokPc,
                   tokNow, exchanges, tokResult>>
    /\ UNCHANGED nonToken

\* _get_app_access_token up to its return (cached token) or up to the POST
GetTokenCall ==
    /\ tokPc = "idle"
    /\ \/ TokenIsFresh(app_access_token, clock, app_access_token_expires_at)
       \/ exchanges < MaxExchanges
    /\ tokNow' = clock
    /\ IF TokenIsFresh(app_access_token, clock, app_access_token_expires_at)
       THEN /\ tokPc' = "idle"
            /\ exchanges' = exchanges
            /\ tokResult' = [how |-> "cached", at |-> clock,
                             hadToken |-> app_access_token # 0,
                             priorToken |-> app_access_token,
                             priorExpiry |-> app_access_token_expires_at,
                             token |-> app_access_token,
                             expires_in |-> 0, exch |-> 0]
       ELSE /\ tokPc' = "post"
            /\ exchanges' = exchanges + 1
            /\ tokResult' = [how |-> "pending", at |-> clock,
                             hadToken |-> app_access_token # 0,
                             priorToken |-> app_access_token,
                             priorExpiry |-> app_access_token_expires_at,
                             token |-> 0, expires_in |-> 0, exch |-> 1]
    /\ UNCHANGED <<app_access_token, app_access_token_expires_at, clock>>
    /\ UNCHANGED nonToken

\* the POST answered 200 with an access_token and expires_in
GetTokenExchanged(expires_in) ==
    /\ tokPc = "post"
    /\ tokPc' = "idle"
    /\ app_access_token' = exchanges
    /\ app_access_token_expires_at' = NewExpiry(tokNow, expires_in)
    /\ tokResult' = [tokResult EXCEPT !.how = "exchanged",
                                      !.token = exchanges,
                                      !.expires_in = expires_in]
    /\ UNCHANGED <<clock, tokNow, exchanges>>
    /\ UNCHANGED nonToken

\* the POST failed (network error, status other than 200, no access_token):
\* RuntimeError or the client error leaves the call, nothing is stored
GetTokenRaises(kind) ==
    /\ tokPc = "post"
    /\ tokPc' = "idle"
    /\ tokResult' = [tokResult EXCEPT !.how = "raised"]
    /\ UNCHANGED <<app_access_token, app_access_token_expires_at, clock,
                   tokNow, exchanges>>
    /\ UNCHANGED nonToken

TokenNext ==
    \/ \E d \in ClockSteps : ClockAdvance(d)
    \/ GetTokenCall
    \/ \E e \in ExpiresIn : GetTokenExchanged(e)
    \/ \E kind \in FailKinds : GetTokenRaises(kind)

\* the token cache alone: calls of _get_app_access_token as time passes
SpecToken == Init /\ [][TokenNext]_vars

\* ============================================== emotes tag parsing (505-526)
\* Strings are sequences of one-character strings, so that split() and int()
\* work on the characters of the tag.

\* emote ids a well-formed group may carry
EmoteIds == {<<"2", "5">>, <<"1">>}

\* texts a position of a group may have; `wf` tells whether the text is
\* <int>-<int>, and then start and end are its bounds
PositionChoices ==
    { [text |-> <<"0", "-", "1">>,      wf |-> TRUE,  start |-> 0, end |-> 1],
      [text |-> <<"2", "-", "3">>,      wf |-> TRUE,  start |-> 2, end |-> 3],
      [text |-> <<"x">>,                wf |-> FALSE, start |-> 0, end |-> 0],
      [text |-> <<"1", "-", "x">>,      wf |-> FALSE, start |-> 0, end |-> 0],
      [text |-> <<"4", "-", "-", "1">>, wf |-> TRUE,  start |-> 4,
                                                       end |-> 0 - 1] }

\* the position and id an item carries when its kind ignores them
NoPosition == [text |-> <<"x">>, wf |-> FALSE, start |-> 0, end |-> 0]
NoEmoteId == <<"1">>

\* the items a tag is built of: "group" opens a group `id:` with a first
\* position, "same" adds a position to the current group after a comma,
\* "bare" is a group that consists of an id without ':'
TagItems ==
    { [join |-> "group", id |-> i, pos |-> p] :
          i \in EmoteIds, p \in PositionChoices }
    \cup { [join |-> "same", id |-> NoEmoteId, pos |-> p] :
          p \in PositionChoices }
    \cup { [join |-> "bare", id |-> i, pos |-> NoPosition] : i \in EmoteIds }

\* the sequences of items of the tags of the model
RECURSIVE TagsOfLength(_)
TagsOfLength(n) ==
    IF n = 0 THEN {<<>>}
    ELSE IF n = 1
         THEN {<<it>> : it \in {t \in TagItems : t.join # "same"}}
         ELSE {Append(t, it) : t \in TagsOfLength(n - 1), it \in TagItems}

\* the text of one item, with the separator that precedes it
ItemText(it, first) ==
    IF it.join = "same" THEN <<",">> \o it.pos.text
    ELSE (IF first THEN <<>> ELSE <<"/">>)
         \o (IF it.join = "bare" THEN it.id
             ELSE it.id \o <<":">> \o it.pos.text)

\* the value of the emotes tag built of the items
RECURSIVE RenderTag(_)
RenderTag(items) ==
    IF items = <<>> THEN <<>>
    ELSE RenderTag(SubSeq(items, 1, Len(items) - 1))
         \o ItemText(items[Len(items)], Len(items) = 1)

\* index of the first occurrence of character c in s, 0 if there is none
IndexOf(s, c) ==
    IF \E i \in 1..Len(s) : s[i] = c
    THEN CHOOSE i \in 1..Len(s) :
            s[i] = c /\ \A j \in 1..(i - 1) : s[j] # c
    ELSE 0

\* str.split(sep, maxsplit); maxsplit = -1 splits at every separator
RECURSIVE Split(_, _, _)
Split(s, sep, maxsplit) ==
    LET i == IndexOf(s, sep)
    IN  IF i = 0 \/ maxsplit = 0 THEN <<s>>
        ELSE <<SubSeq(s, 1, i - 1)>>
             \o Split(SubSeq(s, i + 1, Len(s)), sep, maxsplit - 1)

Digits == {"0", "1", "2", "3", "4", "5", "6", "7", "8", "9"}

DigitValue(c) ==
    CASE c = "0" -> 0 [] c = "1" -> 1 [] c = "2" -> 2 [] c = "3" -> 3
      [] c = "4" -> 4 [] c = "5" -> 5 [] c = "6" -> 6 [] c = "7" -> 7
      [] c = "8" -> 8 [] c = "9" -> 9

\* the digits of s after an optional sign
Unsigned(s) == IF s # <<>> /\ s[1] \in {"+", "-"} THEN Tail(s) ELSE s

\* int(s) returns (it raises ValueError otherwise); the characters of the
\* model include neither whitespace nor '_'
IntParses(s) ==
    /\ Unsigned(s) # <<>>
    /\ \A i \in 1..Len(Unsigned(s)) : Unsigned(s)[i] \in Digits

RECURSIVE DigitsValue(_)
DigitsValue(s) ==
    IF s = <<>> THEN 0
    ELSE 10 * DigitsValue(SubSeq(s, 1, Len(s) - 1)) + DigitValue(s[Len(s)])

\* int(s) where it returns
IntValue(s) ==
    IF s # <<>> /\ s[1] = "-" THEN 0 - DigitsValue(Unsigned(s))
    ELSE DigitsValue(Unsigned(s))

\* results of parsing: the entries appended and whether an exception left
NoEntries == [entries |-> <<>>, raised |-> FALSE]
Raised == [entries |-> <<>>, raised |-> TRUE]

\* lines 516-524 for one position: `a, b = pos.split("-", 1)` raises
\* ValueError when the split yields one part; the ValueError of int() is
\* caught
ParsePosition(pos, emote_id) ==
    IF IndexOf(pos, "-") = 0 THEN NoEntries
    ELSE LET parts == Split(pos, "-", 1)
         IN  IF Len(parts) # 2 THEN Raised
             ELSE IF IntParses(parts[1]) /\ IntParses(parts[2])
                  THEN [entries |-> <<[start |-> IntValue(parts[1]),
                                       end |-> IntValue(parts[2]),
                                       emote_id |-> emote_id]>>,
                        raised |-> FALSE]
                  ELSE NoEntries

\* variant of ParsePositions in which a malformed position ends the loop
\* over the positions of its group
RECURSIVE ParsePositions_Break(_, _)
ParsePositions_Break(plist, emote_id) ==
    IF plist = <<>> THEN NoEntries
    ELSE LET first == ParsePosition(Head(plist), emote_id)
         IN  IF first.raised THEN Raised
             ELSE IF first.entries = <<>> THEN NoEntries
             ELSE LET rest == ParsePositions_Break(Tail(plist), emote_id)
                  IN  [entries |-> first.entries \o rest.entries,
                       raised |-> rest.raised]

\* lines 515-524: the loop over positions.split(",")
RECURSIVE ParsePositions(_, _)
ParsePositions(plist, emote_id) ==
    IF plist = <<>> THEN NoEntries
    ELSE LET first == ParsePosition(Head(plist), emote_id)
         IN  IF first.raised THEN Raised
             ELSE LET rest == ParsePositions(Tail(plist), emote_id)
                  IN  [entries |-> first.entries \o rest.entries,
                       raised |-> rest.raised]

\* lines 512-515 for one group
ParseGroup(group) ==
    IF group = <<>> \/ IndexOf(group, ":") = 0 THEN NoEntries
    ELSE LET parts == Split(group, ":", 1)
         IN  IF Len(parts) # 2 THEN Raised
             ELSE ParsePositions(Split(parts[2], ",", -1), parts[1])

\* lines 511-524: the loop over emotes_tag.split("/")
RECURSIVE ParseGroups(_)
ParseGroups(glist) ==
    IF glist = <<>> THEN NoEntries
    ELSE LET first == ParseGroup(Head(glist))
         IN  IF first.raised THEN Raised
             ELSE LET rest == ParseGroups(Tail(glist))
                  IN  [entries |-> first.entries \o rest.entries,
                       raised |-> rest.raised]

\* lines 509-524: `if relay.emotes_tag:` skips the empty tag
ParseEmotesTag(tag) ==
    IF tag = <<>> THEN NoEntries ELSE ParseGroups(Split(tag, "/", -1))

\* sorted() is stable: e goes after every element whose key is not larger
RECURSIVE InsertByStart(_, _)
InsertByStart(sorted, e) ==
    IF sorted = <<>> THEN <<e>>
    ELSE IF sorted[Len(sorted)].start <= e.start THEN Append(sorted, e)
    ELSE Append(InsertByStart(SubSeq(sorted, 1, Len(sorted) - 1), e),
                sorted[Len(sorted)])

\* line 526: sorted(entries, key=lambda item: item[0])
RECURSIVE SortedByStart(_)
SortedByStart(entries) ==
    IF entries = <<>> THEN <<>>
    ELSE InsertByStart(SortedByStart(SubSeq(entries, 1, Len(entries) - 1)),
                       entries[Len(entries)])

\* _format_message_with_emotes is called for a message whose emotes tag is
\* built of `items`: lines 505-526 up to the first iteration of the loop
FormatCall(items) ==
    /\ fmtPc = "idle"
    /\ tagItems' = items
    /\ emotes_tag' = RenderTag(items)
    /\ LET parsed == ParseEmotesTag(RenderTag(items))
       IN  /\ fmtRaised' = parsed.raised
           /\ fmtEntries' = IF parsed.raised THEN <<>>
                            ELSE SortedByStart(parsed.entries)
           /\ fmtPc' = IF parsed.raised THEN "done" ELSE "loop"
    /\ fmtProcessed' = <<>>
    /\ fmtCursor' = 0
    /\ UNCHANGED nonFmt

\* one iteration of the loop of line 526 (lines 527-536)
FormatSpan ==
    /\ fmtPc = "loop"
    /\ fmtEntries # <<>>
    /\ fmtProcessed' = Append(fmtProcessed, Head(fmtEntries))
    /\ fmtEntries' = Tail(fmtEntries)
    /\ fmtCursor' = Head(fmtEntries).end + 1
    /\ UNCHANGED <<tagItems, emotes_tag, fmtPc, fmtRaised>>
    /\ UNCHANGED nonFmt

\* the loop is exhausted: lines 537-540
FormatTail ==
    /\ fmtPc = "loop"
    /\ fmtEntries = <<>>
    /\ fmtPc' = "done"
    /\ UNCHANGED <<tagItems, emotes_tag, fmtEntries, fmtProcessed,
                   fmtCursor, fmtRaised>>
    /\ UNCHANGED nonFmt

FormatNext ==
    \/ /\ fmtPc = "idle"
       /\ \E n \in 0..MaxTagItems : \E items \in TagsOfLength(n) :
              FormatCall(items)
    \/ FormatSpan
    \/ FormatTail

\* the parsing and ordering of the spans of one message
SpecFormat == Init /\ [][FormatNext]_vars

\* ================================================ emoji provisioning (546-630)
\* line 615: 256 * 1024
MaxImageBytes == 262144

\* the platform emotes the spans of the messages refer to
PlatformEmotes == {[emote_id |-> "25", name |-> "Kappa"],
                   [emote_id |-> "1", name |-> "LUL"]}

\* self._custom_emotes["hikakin"] after _warm_custom_emotes: name -> url
custom_emotes == [t \in {"catJAM"} |-> "bttv/catjam/3x"]

\* str.lower() on the emote names of the model
LowerName(s) ==
    CASE s = "Kappa" -> "kappa" [] s = "LUL" -> "lul"
      [] s = "catJAM" -> "catjam" [] OTHER -> s

\* the messages formatted: one span at the start of the content (or none,
\* emote_id "") and the tokens of the text after it (text.split(" "))
Messages ==
    { [emote_id |-> "25", name |-> "Kappa", tail |-> <<>>],
      [emote_id |-> "25", name |-> "Kappa", tail |-> <<"", "catJAM", "hi">>],
      [emote_id |-> "1", name |-> "LUL", tail |-> <<>>],
      [emote_id |-> "", name |-> "", tail |-> <<"catJAM", "hi">>] }

\* answers of the CDN to one GET: the status and the length of the body
Responses ==
    { [status |-> 200, size |-> z] : z \in {262144, 262145} }
    \cup { [status |-> 203, size |-> 1024], [status |-> 404, size |-> 0] }

\* names other users give to emojis they add to the guild
OtherEmojiNames == {"tw_catjam", "tw_25"}

\* lines 599-607: the resolutions tried for a platform emote, the one url of
\* a catalog emote
UrlCandidates(emote_id, image_url) ==
    IF image_url = NoUrl
    THEN << "emoticons/v2/" \o emote_id \o "/default/dark/3.0",
            "emoticons/v2/" \o emote_id \o "/default/dark/2.0",
            "emoticons/v2/" \o emote_id \o "/default/dark/1.0" >>
    ELSE <<image_url>>

\* line 584
CacheKey(emote_id, emote_name, image_url) ==
    IF image_url = NoUrl THEN emote_id
    ELSE "custom:" \o LowerName(emote_name) \o ":" \o image_url

\* line 593
NameMatches(emoji, emote_id, emote_name, image_url) ==
    \/ emoji.name = "tw_" \o emote_id
    \/ image_url # NoUrl /\ emoji.name = "tw_" \o LowerName(emote_name)

\* variant of AcceptImage without the size ceiling
AcceptImage_NoCeiling(status, size) == status = 200

\* lines 611-617: the body of a candidate becomes image_bytes
AcceptImage(status, size) == status = 200 /\ size <= MaxImageBytes

NoEmoji == [id |-> 0, name |-> "", origin |-> ""]

\* str(emoji) and a piece of plain text, as elements of `parts`
EmojiStr(e) == [kind |-> "emoji", text |-> e.name, id |-> e.id]
TextPart(t) == [kind |-> "text", text |-> t, id |-> 0]

\* escape_mentions on the texts of the model (none contains '@')
EscapeMentions(text) == IF text = "@everyone" THEN "@ everyone" ELSE text

\* _safe_text
SafeText(text, channel_name) ==
    IF Lower(channel_name) = "hikakin" THEN text ELSE EscapeMentions(text)

\* dict assignment cache[k] = v
SetKey(cache, k, v) ==
    [x \in DOMAIN cache \cup {k} |-> IF x = k THEN v ELSE cache[x]]

\* the emoji with the lowest id (guild.emojis in the order of creation)
FirstEmoji(S) == CHOOSE e \in S : \A f \in S : e.id <= f.id

\* _get_cached_custom_emoji: the emoji found (NoEmoji for None) and the
\* cache after the call
GetCachedCustomEmoji(name, url, cache, emojis) ==
    LET cache_key == "custom:" \o LowerName(name) \o ":" \o url
        hit == IF cache_key \in DOMAIN cache
               THEN {e \in emojis : e.id = cache[cache_key]} ELSE {}
        named == {e \in emojis : e.name = "tw_" \o LowerName(name)}
    IN  IF hit # {} THEN [emoji |-> FirstEmoji(hit), cache |-> cache]
        ELSE IF named # {}
             THEN [emoji |-> FirstEmoji(named),
                   cache |-> SetKey(cache, cache_key, FirstEmoji(named).id)]
             ELSE [emoji |-> NoEmoji, cache |-> cache]

\* _replace_custom_tokens on the tokens of a text: the parts joined and the
\* cache after the call
RECURSIVE ReplaceCustomTokens(_, _, _, _)
ReplaceCustomTokens(tokens, channel_name, cache, emojis) ==
    IF tokens = <<>> THEN [parts |-> <<>>, cache |-> cache]
    ELSE LET token == Head(tokens)
             url == IF token \in DOMAIN custom_emotes
                    THEN custom_emotes[token] ELSE NoUrl
             got == IF url # NoUrl
                    THEN GetCachedCustomEmoji(token, url, cache, emojis)
                    ELSE [emoji |-> NoEmoji, cache |-> cache]
             rest == ReplaceCustomTokens(Tail(tokens), channel_name,
                                         got.cache, emojis)
         IN  [parts |-> <<IF got.emoji # NoEmoji THEN EmojiStr(got.emoji)
                          ELSE TextPart(SafeText(token, channel_name))>>
                        \o rest.parts,
              cache |-> rest.cache]

\* lines 532-540 once _ensure_discord_emoji has returned `emoji` (NoEmoji for
\* None): the part of the span, then the text after it; the formatted
\* message is ready for send
AfterEnsure(msg, emoji, cache, emojis, call) ==
    LET r == ReplaceCustomTokens(msg.tail, TrustedChannel, cache, emojis)
    IN  /\ asParts' = <<IF emoji # NoEmoji THEN EmojiStr(emoji)
                        ELSE TextPart(SafeText(msg.name, TrustedChannel))>>
                      \o r.parts
        /\ emoji_cache' = r.cache
        /\ asCall' = call
        /\ asPc' = "send"

\* the relay loop formats msg: lines 505-531 and _ensure_discord_emoji up to
\* its return from the cache or the name search, or up to the first GET
AFormatCall(msg) ==
    /\ asPc = "idle"
    /\ asMessages < MaxMessages
    /\ asMessages' = asMessages + 1
    /\ asMsg' = msg
    /\ asTried' = <<>>
    /\ UNCHANGED <<guild_emojis, nextEmojiId, asPrev, asRestarts, asEdits>>
    /\ IF msg.emote_id = ""
       THEN LET r == ReplaceCustomTokens(msg.tail, TrustedChannel,
                                         emoji_cache, guild_emojis)
            IN  /\ asParts' = r.parts
                /\ emoji_cache' = r.cache
                /\ asPc' = "send"
                /\ UNCHANGED <<asIdx, asCall>>
       ELSE LET cache_key == CacheKey(msg.emote_id, msg.name, NoUrl)
                hit == IF cache_key \in DOMAIN emoji_cache
                       THEN {e \in guild_emojis :
                                e.id = emoji_cache[cache_key]}
                       ELSE {}
                named == {e \in guild_emojis :
                             NameMatches(e, msg.emote_id, msg.name, NoUrl)}
                call == [emote_id |-> msg.emote_id, name |-> msg.name,
                         key |-> cache_key,
                         hadKey |-> cache_key \in DOMAIN emoji_cache,
                         cached |-> IF cache_key \in DOMAIN emoji_cache
                                    THEN emoji_cache[cache_key] ELSE 0,
                         prior |-> {e.id : e \in
                                      {f \in guild_emojis :
                                         f.origin = msg.emote_id \o ":"
                                                    \o msg.name}},
                         prevPresent |-> \E e \in guild_emojis :
                                            e.id = asPrev.result,
                         sameProcess |-> asPrev.how # "restarted",
                         downloads |-> 0, creates |-> 0, result |-> 0,
                         how |-> "pending"]
            IN  /\ IF hit # {}
                   THEN /\ \E e \in hit :
                             AfterEnsure(msg, e, emoji_cache, guild_emojis,
                                 [call EXCEPT !.how = "cache",
                                              !.result = e.id])
                        /\ asIdx' = 0
                   ELSE IF named # {}
                   THEN /\ \E e \in named :
                             AfterEnsure(msg, e,
                                 SetKey(emoji_cache, cache_key, e.id),
                                 guild_emojis,
                                 [call EXCEPT !.how = "search",
                                              !.result = e.id])
                        /\ asIdx' = 0
                   ELSE /\ asPc' = "get"
                        /\ asIdx' = 1
                        /\ asCall' = call
                        /\ asParts' = <<>>
                        /\ UNCHANGED emoji_cache
    /\ UNCHANGED nonAsset

\* lines 609-620: the GET of the candidate in flight is answered
AGetResponse(resp) ==
    /\ asPc = "get"
    /\ LET cands == UrlCandidates(asMsg.emote_id, NoUrl)
           call == [asCall EXCEPT !.downloads = @ + 1]
       IN  /\ asTried' = Append(asTried, [url |-> cands[asIdx],
                                          status |-> resp.status,
                                          size |-> resp.size])
           /\ IF AcceptImage(resp.status, resp.size)
              THEN /\ asPc' = "create"
                   /\ asCall' = call
                   /\ UNCHANGED <<asIdx, asParts, emoji_cache>>
              ELSE IF asIdx < Len(cands)
              THEN /\ asIdx' = asIdx + 1
                   /\ asCall' = call
                   /\ UNCHANGED <<asPc, asParts, emoji_cache>>
              ELSE /\ AfterEnsure(asMsg, NoEmoji, emoji_cache, guild_emojis,
                                  [call EXCEPT !.how = "none"])
                   /\ UNCHANGED asIdx
    /\ UNCHANGED <<guild_emojis, nextEmojiId, asMsg, asPrev, asMessages,
                   asRestarts, asEdits>>
    /\ UNCHANGED nonAsset

\* line 610 or 613 raises (aiohttp.ClientError, asyncio.TimeoutError): no
\* handler in _ensure_discord_emoji, _format_message_with_emotes or
\* _relay_loop; the relay task ends with the exception
AGetRaises(kind) ==
    /\ asPc = "get"
    /\ asPc' = "failed"
    /\ asTried' = Append(asTried,
                     [url |-> UrlCandidates(asMsg.emote_id, NoUrl)[asIdx],
                      status |-> 0, size |-> 0])
    /\ asCall' = [asCall EXCEPT !.downloads = @ + 1, !.how = "raised",
                                !.result = 0 - 1]
    /\ UNCHANGED <<emoji_cache, guild_emojis, nextEmojiId, asMsg, asIdx,
                   asParts, asPrev, asMessages, asRestarts, asEdits>>
    /\ UNCHANGED nonAsset

\* variant of ACreateOk that does not store the cache entry
ACreateOk_NoCache ==
    /\ asPc = "create"
    /\ LET e == [id |-> nextEmojiId, name |-> "tw_" \o LowerName(asMsg.name),
                 origin |-> asMsg.emote_id \o ":" \o asMsg.name]
       IN  /\ guild_emojis' = guild_emojis \cup {e}
           /\ AfterEnsure(asMsg, e, emoji_cache, guild_emojis \cup {e},
                          [asCall EXCEPT !.creates = @ + 1,
                                         !.how = "created",
                                         !.result = e.id])
    /\ nextEmojiId' = nextEmojiId + 1
    /\ UNCHANGED <<asMsg, asIdx, asTried, asPrev, asMessages, asRestarts,
                   asEdits>>
    /\ UNCHANGED nonAsset

\* lines 622-630: guild.create_custom_emoji returns the new emoji
ACreateOk ==
    /\ asPc = "create"
    /\ LET e == [id |-> nextEmojiId, name |-> "tw_" \o LowerName(asMsg.name),
                 origin |-> asMsg.emote_id \o ":" \o asMsg.name]
       IN  /\ guild_emojis' = guild_emojis \cup {e}
           /\ AfterEnsure(asMsg, e, SetKey(emoji_cache, asCall.key, e.id),
                          guild_emojis \cup {e},
                          [asCall EXCEPT !.creates = @ + 1,
                                         !.how = "created",
                                         !.result = e.id])
    /\ nextEmojiId' = nextEmojiId + 1
    /\ UNCHANGED <<asMsg, asIdx, asTried, asPrev, asMessages, asRestarts,
                   asEdits>>
    /\ UNCHANGED nonAsset

\* lines 624-628: guild.create_custom_emoji raises; logged, None returned
ACreateRaises ==
    /\ asPc = "create"
    /\ AfterEnsure(asMsg, NoEmoji, emoji_cache, guild_emojis,
                   [asCall EXCEPT !.creates = @ + 1,
                                  !.how = "create_failed"])
    /\ UNCHANGED <<guild_emojis, nextEmojiId, asMsg, asIdx, asTried, asPrev,
                   asMessages, asRestarts, asEdits>>
    /\ UNCHANGED nonAsset

\* _relay_loop line 335: channel.send(formatted) returns; the loop is back
\* at queue.get()
ASend ==
    /\ asPc = "send"
    /\ asPc' = "idle"
    /\ asMsg' = NoMessage
    /\ asParts' = <<>>
    /\ asIdx' = 0
    /\ asTried' = <<>>
    /\ asCall' = NoCall
    /\ asPrev' = IF asCall.how = "nocall" THEN asPrev
                 ELSE [key |-> asCall.key, result |-> asCall.result,
                       how |-> asCall.how]
    /\ UNCHANGED <<emoji_cache, guild_emojis, nextEmojiId, asMessages,
                   asRestarts, asEdits>>
    /\ UNCHANGED nonAsset

\* the process is started again: __init__ line 220 empties the cache; the
\* emojis of the guild stay
ARestart ==
    /\ asPc \in {"idle", "failed"}
    /\ asRestarts < MaxRestarts
    /\ asRestarts' = asRestarts + 1
    /\ emoji_cache' = [k \in {} |-> 0]
    /\ asPc' = "idle"
    /\ asMsg' = NoMessage
    /\ asParts' = <<>>
    /\ asIdx' = 0
    /\ asTried' = <<>>
    /\ asCall' = NoCall
    /\ asPrev' = [key |-> "", result |-> 0, how |-> "restarted"]
    /\ UNCHANGED <<guild_emojis, nextEmojiId, asMessages, asEdits>>
    /\ UNCHANGED nonAsset

\* another user adds an emoji to the guild
GuildEmojiAdded(name) ==
    /\ asEdits < MaxGuildEdits
    /\ asEdits' = asEdits + 1
    /\ guild_emojis' = guild_emojis
                       \cup {[id |-> nextEmojiId, name |-> name,
                              origin |-> "other"]}
    /\ nextEmojiId' = nextEmojiId + 1
    /\ UNCHANGED <<emoji_cache, asPc, asMsg, asIdx, asParts, asTried, asCall,
                   asPrev, asMessages, asRestarts>>
    /\ UNCHANGED nonAsset

\* another user deletes an emoji of the guild
GuildEmojiRemoved(e) ==
    /\ asEdits < MaxGuildEdits
    /\ e \in guild_emojis
    /\ asEdits' = asEdits + 1
    /\ guild_emojis' = guild_emojis \ {e}
    /\ UNCHANGED <<emoji_cache, nextEmojiId, asPc, asMsg, asIdx, asParts,
                   asTried, asCall, asPrev, asMessages, asRestarts>>
    /\ UNCHANGED nonAsset

AssetNext ==
    \/ \E msg \in Messages : AFormatCall(msg)
    \/ \E resp \in Responses : AGetResponse(resp)
    \/ \E kind \in {"network", "timeout"} : AGetRaises(kind)
    \/ ACreateOk
    \/ ACreateRaises
    \/ ASend
    \/ ARestart
    \/ \E name \in OtherEmojiNames : GuildEmojiAdded(name)
    \/ \E e \in guild_emojis : GuildEmojiRemoved(e)

\* the formatting of messages with emotes, one message at a time
SpecAsset == Init /\ [][AssetNext]_vars

\* ========================================================== close (692-708)
\* a task object has finished (normally, by an exception or by cancellation)
TaskEnded(task) == task \in {"failed", "cancelled"}

\* the task created for self._twitch_client.connect() ends with the
\* exception connect() raised (line 237 creates it without a handler)
TwitchConnectRaises ==
    /\ clPc = "idle"
    /\ twitch_task = "running"
    /\ twitch_task' = "failed"
    /\ lastOp' = "other"
    /\ UNCHANGED <<is_relay_paused, is_live_blocked, is_stream_status_known,
                   relay_gate, message_queue, unfinished_tasks, live_channels,
                   live_streams, tree_synced, relay_task,
                   stream_monitor_task>>
    /\ UNCHANGED coros
    /\ UNCHANGED <<nextId, arrivedBlocked, sendLog, delivered, dequeues,
                   flushedIds, heldAtFlush, pausedHeld, ticks, commands>>
    /\ UNCHANGED aux

\* close() is called and `await self._discord_bot.close()` has returned; the
\* HTTP session exists once _warm_custom_emotes has started (line 423)
CloseCalled ==
    /\ clPc = "idle"
    /\ clPc' = "twitch"
    /\ http_session' = IF readyPc = "warm" \/ twitch_task # "None"
                       THEN "open" ELSE "None"
    /\ UNCHANGED twitch_client
    /\ UNCHANGED <<bridge, coros, history, tokenVars, fmtVars, assetVars, extraVars>>

\* what `task.cancel()` followed by `with suppress(CancelledError): await
\* task` does to close(): a pending task is cancelled and the CancelledError
\* suppressed; the exception of a task that has already failed is raised
\* again by the await and leaves close()
AwaitCancelled(task, next) ==
    IF task = "failed" THEN "raised" ELSE next

\* the state of a task object after cancel() and the await
Cancelled(task) == IF task = "running" THEN "cancelled" ELSE task

\* lines 695-698
CloseTwitchTask ==
    /\ clPc = "twitch"
    /\ clPc' = AwaitCancelled(twitch_task, "relay")
    /\ twitch_task' = Cancelled(twitch_task)
    /\ UNCHANGED <<is_relay_paused, is_live_blocked, is_stream_status_known,
                   relay_gate, message_queue, unfinished_tasks, live_channels,
                   live_streams, tree_synced, relay_task,
                   stream_monitor_task>>
    /\ UNCHANGED <<coros, history, tokenVars, fmtVars, assetVars, extraVars,
                   twitch_client, http_session>>

\* lines 699-702; the CancelledError thrown into _relay_loop runs its
\* finally clause (task_done) when the loop holds a message
CloseRelayTask ==
    /\ clPc = "relay"
    /\ clPc' = AwaitCancelled(relay_task, "monitor")
    /\ relay_task' = Cancelled(relay_task)
    /\ relayPc' = IF relay_task = "running" THEN "cancelled" ELSE relayPc
    /\ relay' = IF relay_task = "running" THEN NoRelay ELSE relay
    /\ unfinished_tasks' = IF relay_task = "running" /\ relay # NoRelay
                           THEN unfinished_tasks - 1 ELSE unfinished_tasks
    /\ UNCHANGED <<is_relay_paused, is_live_blocked, is_stream_status_known,
                   relay_gate, message_queue, live_channels, live_streams,
                   tree_synced, twitch_task, stream_monitor_task>>
    /\ UNCHANGED <<readyPc, monPc, monIdx, monLive, monRan>>
    /\ UNCHANGED <<history, tokenVars, fmtVars, assetVars, extraVars, twitch_client,
                   http_session>>

\* lines 703-706
CloseMonitorTask ==
    /\ clPc = "monitor"
    /\ clPc' = AwaitCancelled(stream_monitor_task, "client")
    /\ stream_monitor_task' = Cancelled(stream_monitor_task)
    /\ monPc' = IF stream_monitor_task = "running" THEN "cancelled" ELSE monPc
    /\ UNCHANGED <<is_relay_paused, is_live_blocked, is_stream_status_known,
                   relay_gate, message_queue, unfinished_tasks, live_channels,
                   live_streams, tree_synced, twitch_task, relay_task>>
    /\ UNCHANGED <<readyPc, relayPc, relay, monIdx, monLive, monRan>>
    /\ UNCHANGED <<history, tokenVars, fmtVars, assetVars, extraVars, twitch_client,
                   http_session>>

\* line 707: await self._twitch_client.close()
CloseTwitchClient ==
    /\ clPc = "client"
    /\ clPc' = "http"
    /\ twitch_client' = "closed"
    /\ UNCHANGED <<bridge, coros, history, tokenVars, fmtVars, assetVars, extraVars,
                   http_session>>

\* line 708 and _close_http_session: an open session is closed, the field
\* is set to None; close() returns
CloseHttpSession ==
    /\ clPc = "http"
    /\ clPc' = "done"
    /\ http_session' = "None"
    /\ UNCHANGED <<bridge, coros, history, tokenVars, fmtVars, assetVars, extraVars,
                   twitch_client>>

\* the bridge runs until close() is called; then close() runs to its end
CloseNext ==
    \/ clPc = "idle" /\ Next
    \/ TwitchConnectRaises
    \/ CloseCalled
    \/ CloseTwitchTask
    \/ CloseRelayTask
    \/ CloseMonitorTask
    \/ CloseTwitchClient
    \/ CloseHttpSession

\* the relay engine with its shutdown
SpecClose == Init /\ [][CloseNext]_vars

\* ================================= overlapping ready events (228-241)
\* discord.py runs every dispatched on_ready as a task of its own, so a
\* second handler can start while the first is suspended in tree.sync() or
\* in _warm_custom_emotes().
WarmingUp(pcs) == {h \in DOMAIN pcs : pcs[h] = "warm"}

\* a ready event is dispatched: the handler runs to its first await
ReadyEvent ==
    /\ clPc = "idle"
    /\ Len(rdPc) < MaxReadyEvents
    /\ rdPc' = Append(rdPc, IF ~tree_synced THEN "sync" ELSE "warm")
    /\ rdOverlap' = (rdOverlap \/ Cardinality(WarmingUp(rdPc')) >= 2)
    /\ UNCHANGED rdCreated
    /\ UNCHANGED <<bridge, coros, history, tokenVars, fmtVars, assetVars,
                   closeVars, substVars>>

\* tree.sync() returned in handler h: _tree_synced = True, then the handler
\* suspends in _warm_custom_emotes()
ReadySynced(h) ==
    /\ rdPc[h] = "sync"
    /\ tree_synced' = TRUE
    /\ rdPc' = [rdPc EXCEPT ![h] = "warm"]
    /\ rdOverlap' = (rdOverlap \/ Cardinality(WarmingUp(rdPc')) >= 2)
    /\ UNCHANGED rdCreated
    /\ UNCHANGED <<is_relay_paused, is_live_blocked, is_stream_status_known,
                   relay_gate, message_queue, unfinished_tasks, live_channels,
                   live_streams, twitch_task, relay_task, stream_monitor_task>>
    /\ UNCHANGED <<coros, history, tokenVars, fmtVars, assetVars, closeVars,
                   substVars>>

\* tree.sync() raised in handler h: the handler ends, nothing was created
ReadySyncRaises(h) ==
    /\ rdPc[h] = "sync"
    /\ rdPc' = [rdPc EXCEPT ![h] = "raised"]
    /\ UNCHANGED <<rdCreated, rdOverlap>>
    /\ UNCHANGED <<bridge, coros, history, tokenVars, fmtVars, assetVars,
                   closeVars, substVars>>

\* variant of ReadyWarmed that creates the three tasks without testing the
\* fields for None
ReadyWarmed_Unconditional(h) ==
    /\ rdPc[h] = "warm"
    /\ rdPc' = [rdPc EXCEPT ![h] = "done"]
    /\ twitch_task' = "running"
    /\ relay_task' = "running"
    /\ relayPc' = "get"
    /\ stream_monitor_task' = "running"
    /\ monPc' = "sleep"
    /\ rdCreated' = [twitch |-> rdCreated.twitch + 1,
                     relay |-> rdCreated.relay + 1,
                     monitor |-> rdCreated.monitor + 1]
    /\ UNCHANGED rdOverlap
    /\ UNCHANGED <<is_relay_paused, is_live_blocked, is_stream_status_known,
                   relay_gate, message_queue, unfinished_tasks, live_channels,
                   live_streams, tree_synced>>
    /\ UNCHANGED <<readyPc, relay, monIdx, monLive, monRan>>
    /\ UNCHANGED <<history, tokenVars, fmtVars, assetVars, closeVars,
                   substVars>>

\* _warm_custom_emotes() returned in handler h (it catches the exceptions of
\* its fetches): lines 235-240 run without an await, each task is created
\* if its field is None
ReadyWarmed(h) ==
    /\ rdPc[h] = "warm"
    /\ rdPc' = [rdPc EXCEPT ![h] = "done"]
    /\ twitch_task' = IF twitch_task = "None" THEN "running" ELSE twitch_task
    /\ relay_task' = IF relay_task = "None" THEN "running" ELSE relay_task
    /\ relayPc' = IF relay_task = "None" THEN "get" ELSE relayPc
    /\ stream_monitor_task' =
          IF stream_monitor_task = "None" THEN "running" ELSE stream_monitor_task
    /\ monPc' = IF stream_monitor_task = "None" THEN "sleep" ELSE monPc
    /\ rdCreated' =
          [twitch |-> rdCreated.twitch + (IF twitch_task = "None" THEN 1 ELSE 0),
           relay |-> rdCreated.relay + (IF relay_task = "None" THEN 1 ELSE 0),
           monitor |-> rdCreated.monitor
                          + (IF stream_monitor_task = "None" THEN 1 ELSE 0)]
    /\ UNCHANGED rdOverlap
    /\ UNCHANGED <<is_relay_paused, is_live_blocked, is_stream_status_known,
                   relay_gate, message_queue, unfinished_tasks, live_channels,
                   live_streams, tree_synced>>
    /\ UNCHANGED <<readyPc, relay, monIdx, monLive, monRan>>
    /\ UNCHANGED <<history, tokenVars, fmtVars, assetVars, closeVars,
                   substVars>>

\* the relay task ends with an exception of the loop body (_relay_loop has
\* a finally and no except); _relay_task keeps the finished task
RelayTaskRaises ==
    /\ relay_task = "running"
    /\ relay_task' = "failed"
    /\ relayPc' = "failed"
    /\ UNCHANGED <<is_relay_paused, is_live_blocked, is_stream_status_known,
                   relay_gate, message_queue, unfinished_tasks, live_channels,
                   live_streams, tree_synced, twitch_task,
                   stream_monitor_task>>
    /\ UNCHANGED <<readyPc, relay, monPc, monIdx, monLive, monRan>>
    /\ UNCHANGED <<history, aux>>

ReadyNext ==
    \/ ReadyEvent
    \/ \E h \in DOMAIN rdPc : ReadySynced(h)
    \/ \E h \in DOMAIN rdPc : ReadySyncRaises(h)
    \/ \E h \in DOMAIN rdPc : ReadyWarmed(h)
    \/ RelayTaskRaises
    \/ TwitchConnectRaises

SpecReady == Init /\ [][ReadyNext]_vars

\* ======================= substitution on the characters (505-559)
\* A str is a sequence of one-character strings; str(emoji) is one element
\* of the output.
\* the str of a sequence of characters
RECURSIVE Str(_)
Str(chars) == IF chars = <<>> THEN "" ELSE Head(chars) \o Str(Tail(chars))

\* ''.join / concatenation of a list of strs
RECURSIVE Flatten(_)
Flatten(pieces) ==
    IF pieces = <<>> THEN <<>> ELSE Head(pieces) \o Flatten(Tail(pieces))

\* " ".join(replaced)
RECURSIVE JoinSpace(_)
JoinSpace(pieces) ==
    IF pieces = <<>> THEN <<>>
    ELSE IF Len(pieces) = 1 THEN Head(pieces)
    ELSE Head(pieces) \o <<" ">> \o JoinSpace(Tail(pieces))

Min(a, b) == IF a <= b THEN a ELSE b

\* a slice bound of Python on a str of length n: a negative bound counts
\* from the end, every bound is clamped to 0..n
PyIndex(i, n) == IF i < 0 THEN Max(i + n, 0) ELSE Min(i, n)

\* s[a:b]
Slice(s, a, b) == SubSeq(s, PyIndex(a, Len(s)) + 1, PyIndex(b, Len(s)))

\* str.lower() on the letters of the model
LowerChar(c) ==
    CASE c = "K" -> "k" [] c = "L" -> "l" [] c = "U" -> "u"
      [] c = "J" -> "j" [] c = "A" -> "a" [] c = "M" -> "m" [] OTHER -> c

LowerChars(chars) == [i \in DOMAIN chars |-> LowerChar(chars[i])]

\* str(n) for an emoji id
RECURSIVE IdStr(_)
IdStr(n) ==
    LET d == CHOOSE c \in Digits : DigitValue(c) = n % 10
    IN  IF n < 10 THEN d ELSE IdStr(n \div 10) \o d

\* str(emoji) of discord.py for a static emoji
EmojiMarkup(e) == "<:" \o e.name \o ":" \o IdStr(e.id) \o ">"

\* escape_mentions: a zero-width space (written "ZWSP") goes after the '@' of
\* @everyone and @here
RECURSIVE EscapeMentionsChars(_)
EscapeMentionsChars(text) ==
    IF text = <<>> THEN <<>>
    ELSE IF /\ Head(text) = "@"
            /\ \/ SubSeq(text, 2, 5) = <<"h", "e", "r", "e">>
               \/ SubSeq(text, 2, 9)
                     = <<"e", "v", "e", "r", "y", "o", "n", "e">>
         THEN <<"@", "ZWSP">> \o EscapeMentionsChars(Tail(text))
         ELSE <<Head(text)>> \o EscapeMentionsChars(Tail(text))

\* _safe_text on characters
SafeChars(text, channel_name) ==
    IF Lower(channel_name) = "hikakin" THEN text
    ELSE EscapeMentionsChars(text)

\* variant of SplitTokens that splits at runs of spaces, as text.split()
\* does
SplitTokens_Whitespace(text) ==
    SelectSeq(Split(text, " ", -1), LAMBDA t : t # <<>>)

\* line 548: text.split(" ")
SplitTokens(text) == Split(text, " ", -1)

\* lines 550-558: the loop over the tokens; `replaced` and the cache after it
RECURSIVE ReplaceEachToken(_, _, _, _)
ReplaceEachToken(tokens, channel_name, cache, emojis) ==
    IF tokens = <<>> THEN [replaced |-> <<>>, cache |-> cache]
    ELSE LET token == Head(tokens)
             url == IF Str(token) \in DOMAIN custom_emotes
                    THEN custom_emotes[Str(token)] ELSE NoUrl
             got == IF url # NoUrl
                    THEN GetCachedCustomEmoji(Str(token), url, cache, emojis)
                    ELSE [emoji |-> NoEmoji, cache |-> cache]
             rest == ReplaceEachToken(Tail(tokens), channel_name, got.cache,
                                      emojis)
         IN  [replaced |-> <<IF got.emoji # NoEmoji
                             THEN <<EmojiMarkup(got.emoji)>>
                             ELSE SafeChars(token, channel_name)>>
                           \o rest.replaced,
              cache |-> rest.cache]

\* _replace_custom_tokens: the str returned and the cache after the call
ReplaceCustomTokensChars(text, channel_name, cache, emojis) ==
    LET r == ReplaceEachToken(SplitTokens(text), channel_name, cache, emojis)
    IN  [out |-> JoinSpace(r.replaced), cache |-> r.cache]

\* variant of SpanName that leaves out the character at `end`
SpanName_Exclusive(content, e) == Slice(content, e.start, e.end)

\* line 530: name = content[start : end + 1]
SpanName(content, e) == Slice(content, e.start, e.end + 1)

\* line 540: f"{relay.display_name}: {''.join(parts)}"
FormatResult(display_name, parts) == display_name \o <<":", " ">> \o parts

\* the texts chat messages are made of
Pieces == { <<" ">>, <<"h", "i">>, <<"c", "a", "t", "J", "A", "M">>,
            <<"@", "h", "e", "r", "e">> }

RECURSIVE ContentsOfLength(_)
ContentsOfLength(n) ==
    IF n = 0 THEN {<<>>}
    ELSE {c \o p : c \in ContentsOfLength(n - 1), p \in Pieces}

\* "Kappa LUL text"
KappaContent ==
    <<"K", "a", "p", "p", "a", " ", "L", "U", "L", " ", "t", "e", "x", "t">>

\* "25:0-4/1902:6-10" and "25:0-4/1902:6-8"
KappaTagTo10 ==
    <<"2", "5", ":", "0", "-", "4", "/", "1", "9", "0", "2", ":", "6", "-",
      "1", "0">>
KappaTagTo8 ==
    <<"2", "5", ":", "0", "-", "4", "/", "1", "9", "0", "2", ":", "6", "-",
      "8">>

\* emotes tags without a span: absent, "25:", "25:x-1"; and "25:0-1"
PieceTags ==
    { <<>>, <<"2", "5", ":">>, <<"2", "5", ":", "x", "-", "1">>,
      <<"2", "5", ":", "0", "-", "1">> }

\* the messages that reach the formatter (enqueue_twitch_message lets only
\* the trusted channel through, and event_message no empty content)
SubstMessages ==
    { [display_name |-> <<"b", "o", "b">>, channel_name |-> ch,
       content |-> c, emotes_tag |-> t] :
         ch \in {"hikakin", "Hikakin"},
         c \in UNION {ContentsOfLength(n) : n \in 1..MaxPieces},
         t \in PieceTags }
    \cup
    { [display_name |-> <<"b", "o", "b">>, channel_name |-> "hikakin",
       content |-> KappaContent, emotes_tag |-> t] :
         t \in {KappaTagTo10, KappaTagTo8} }

\* the formatter goes on from `cursor` with the entries left, up to its
\* next await or its return: lines 527-529 before a span, lines 537-540
\* after the last one
SubstAdvance(msg, entries, cursor, parts, log, cache, emojis) ==
    /\ sbEntries' = entries
    /\ sbCursor' = cursor
    /\ IF entries = <<>>
       THEN /\ sbPc' = "done"
            /\ IF cursor < Len(msg.content)
               THEN LET tail == Slice(msg.content, cursor,
                                      Len(msg.content))
                        r == ReplaceCustomTokensChars(
                                 tail, msg.channel_name, cache,
                                 emojis)
                    IN  /\ sbParts' = parts \o r.out
                        /\ sbLog' = Append(log, [kind |-> "text",
                                                 text |-> tail,
                                                 out |-> r.out])
                        /\ emoji_cache' = r.cache
               ELSE /\ sbParts' = parts
                    /\ sbLog' = log
                    /\ emoji_cache' = cache
       ELSE /\ sbPc' = "ensure"
            /\ IF cursor < Head(entries).start
               THEN LET raw == Slice(msg.content, cursor,
                                     Head(entries).start)
                        r == ReplaceCustomTokensChars(
                                 raw, msg.channel_name, cache,
                                 emojis)
                    IN  /\ sbParts' = parts \o r.out
                        /\ sbLog' = Append(log, [kind |-> "text",
                                                 text |-> raw,
                                                 out |-> r.out])
                        /\ emoji_cache' = r.cache
               ELSE /\ sbParts' = parts
                    /\ sbLog' = log
                    /\ emoji_cache' = cache

\* the asset variables the formatter does not touch
assetRest == <<asPc, asMsg, asIdx, asParts, asTried, asCall, asPrev,
               asMessages, asRestarts, asEdits>>

\* _format_message_with_emotes is called for msg (the channel has a guild):
\* lines 505-526, then up to the first await or the return
SubstCall(msg) ==
    /\ sbPc = "idle"
    /\ sbMsg' = msg
    /\ LET parsed == ParseEmotesTag(msg.emotes_tag)
       IN  IF parsed.raised
           THEN /\ sbPc' = "raised"
                /\ sbEntries' = <<>>
                /\ sbCursor' = 0
                /\ sbParts' = <<>>
                /\ sbLog' = <<>>
                /\ UNCHANGED emoji_cache
           ELSE SubstAdvance(msg, SortedByStart(parsed.entries), 0, <<>>,
                             <<>>, emoji_cache, guild_emojis)
    /\ UNCHANGED <<guild_emojis, nextEmojiId, assetRest>>
    /\ UNCHANGED <<bridge, coros, history, tokenVars, fmtVars, closeVars,
                   readyVars>>

\* _ensure_discord_emoji(emote_id, name, guild, None) returned: the emoji of
\* the cache or of the name search (lines 584-596) when there is one,
\* otherwise a new emoji (created = TRUE, line 629) or None (lines 618-620,
\* 626-628); then lines 532-536 and on to the next await or the return
SubstEnsureReturns(created) ==
    /\ sbPc = "ensure"
    /\ LET e == Head(sbEntries)
           emote_id == Str(e.emote_id)
           name == SpanName(sbMsg.content, e)
           hit == IF emote_id \in DOMAIN emoji_cache
                  THEN {g \in guild_emojis : g.id = emoji_cache[emote_id]}
                  ELSE {}
           named == {g \in guild_emojis : g.name = "tw_" \o emote_id}
           new == [id |-> nextEmojiId,
                   name |-> "tw_" \o Str(LowerChars(name)),
                   origin |-> emote_id \o ":" \o Str(name)]
           emoji == IF hit # {} THEN FirstEmoji(hit)
                    ELSE IF named # {} THEN FirstEmoji(named)
                    ELSE IF created THEN new ELSE NoEmoji
           cache == IF hit # {} \/ emoji = NoEmoji THEN emoji_cache
                    ELSE SetKey(emoji_cache, emote_id, emoji.id)
           part == IF emoji # NoEmoji THEN <<EmojiMarkup(emoji)>>
                   ELSE SafeChars(name, sbMsg.channel_name)
           emojis == IF emoji = new THEN guild_emojis \cup {new}
                     ELSE guild_emojis
       IN  /\ guild_emojis' = emojis
           /\ nextEmojiId' = IF emoji = new THEN nextEmojiId + 1
                             ELSE nextEmojiId
           /\ UNCHANGED sbMsg
           /\ SubstAdvance(sbMsg, Tail(sbEntries), e.end + 1,
                           sbParts \o part,
                           Append(sbLog, [kind |-> "span", text |-> name,
                                          out |-> part]),
                           cache, emojis)
    /\ UNCHANGED assetRest
    /\ UNCHANGED <<bridge, coros, history, tokenVars, fmtVars, closeVars,
                   readyVars>>

\* _ensure_discord_emoji raised (the GET of line 610 has no handler): the
\* exception leaves the formatter
SubstEnsureRaises ==
    /\ sbPc = "ensure"
    /\ sbPc' = "raised"
    /\ UNCHANGED <<sbMsg, sbEntries, sbCursor, sbParts, sbLog>>
    /\ UNCHANGED <<bridge, coros, history, tokenVars, fmtVars, assetVars,
                   closeVars, readyVars>>

SubstNext ==
    \/ /\ sbPc = "idle"
       /\ \E msg \in SubstMessages : SubstCall(msg)
    \/ \E created \in BOOLEAN : SubstEnsureReturns(created)
    \/ SubstEnsureRaises
    \/ /\ sbPc = "idle"
       /\ \E name \in OtherEmojiNames : GuildEmojiAdded(name)

\* the formatting of one message, character by character
SpecSubst == Init /\ [][SubstNext]_vars

\* ================================================================= claims

\* C1: in every reachable state the relay gate is open iff status_known is
\* true, manual_paused is false and live_blocked is false (the gate function
\* agrees with that on all 8 combinations), and the state after construction
\* has the gate closed.
C1_GateIffInputs ==
    /\ relay_gate = (is_stream_status_known /\ ~is_relay_paused
                     /\ ~is_live_blocked)
    /\ (lastOp = "init" => ~relay_gate)
    /\ \A k, p, l \in BOOLEAN :
          RefreshRelayGate(k, p, l) = (k /\ ~p /\ ~l)

\* the gate is open again after a pause and a resume
C1_Witness == relay_gate /\ lastOp = "resume" /\ is_stream_status_known

\* C2: whenever the gate wait of the relay loop returns and the loop goes on
\* to resolve, format and send the message it holds, the gate is open.
C2_GateOpenWhenWaitReturns ==
    [][(relayPc # "resolve" /\ relayPc' = "resolve") => relay_gate']_vars

\* C3: the relay loop task never terminates because of an exception raised
\* by destination resolution, emote substitution or the destination send.
C3_RelayLoopSurvives == relay_task # "failed" /\ relayPc # "failed"

\* C4: a successful monitor tick that changes live_blocked from false to true
\* leaves the relay queue with length 0, whatever its length was before.
C4_QueueEmptyAfterLiveBlock ==
    [][(~is_live_blocked /\ is_live_blocked') => Len(message_queue') = 0]_vars

\* the first tick found a live channel and flushed a queue of depth 2
C4_Witness ==
    /\ lastOp = "tick_live"
    /\ ticks = 1
    /\ flushedIds = {1, 2}
    /\ message_queue = <<>>

\* C5: a message that was in the queue, or held by the relay loop in its gate
\* wait, when a monitor tick detected a live session is never delivered.
C5_FlushedNeverDelivered ==
    delivered \cap (flushedIds \cup heldAtFlush) = {}

\* C6: an inbound event that arrives while live_blocked is true leaves the
\* queue unchanged, and no such event is ever queued, held, sent or delivered.
C6_LiveBlockedArrivalsDropped ==
    /\ [](arrivedBlocked \cap (QueueIds(message_queue) \cup {relay.id}
                               \cup Range(sendLog) \cup delivered) = {})
    /\ [][(nextId' # nextId /\ is_live_blocked)
             => message_queue' = message_queue]_vars

\* an event arrived during a live session, the session ended, and a later
\* message was delivered through the reopened gate
C6_Witness == arrivedBlocked # {} /\ relay_gate /\ delivered # {}

\* C7: a message held by the relay loop in its gate wait when the pause
\* command is issued with live_blocked false is not delivered before the
\* resume command is issued.
C7_PausedHeldNotDelivered ==
    pausedHeld # 0 => pausedHeld \notin delivered

\* C8: channel.send is invoked in enqueue order (ids are given in arrival
\* order, so the ids in the send log increase).
C8_FifoOrder ==
    \A i, j \in DOMAIN sendLog : i < j => sendLog[i] < sendLog[j]

\* two messages were enqueued and both were delivered
C8_Witness == Cardinality(delivered) >= 2 /\ Len(sendLog) >= 2

\* C9: every message is taken off the queue at most once (by the relay loop
\* or by a flush, never both) and channel.send is invoked at most once for
\* it, also after a failed send.
C9_AtMostOnce ==
    \A i \in Ids :
        /\ dequeues[i] <= 1
        /\ Cardinality({k \in DOMAIN sendLog : sendLog[k] = i}) <= 1

\* one message was flushed, another was sent and its send failed
C9_Witness ==
    /\ relayPc = "failed"
    /\ sendLog # <<>>
    /\ sendLog[Len(sendLog)] \notin delivered
    /\ \E i \in flushedIds : dequeues[i] = 1

\* C10: a monitor tick that fails leaves live_blocked, status_known, the live
\* channel set, the live-stream map, the queue and the gate as they were, and
\* the monitor task goes to its sleep, from which the next tick starts.
C10_FailedTickChangesNothing ==
    [][lastOp' = "tick_fail" =>
          /\ UNCHANGED <<is_live_blocked, is_stream_status_known,
                         live_channels, live_streams, message_queue,
                         relay_gate>>
          /\ monPc' = "sleep"
          /\ stream_monitor_task' = "running"]_vars

\* the second tick failed after the first one had found a live channel: the
\* live state of the first tick is still there and the monitor sleeps
C10_Witness ==
    /\ lastOp = "tick_fail"
    /\ monPc = "sleep"
    /\ ticks = 2
    /\ is_live_blocked
    /\ live_channels # {}

\* C11: status_known is false after construction, becomes true exactly at a
\* successful monitor poll, and no later step (failed or successful tick,
\* pause, resume, status query, or any other) sets it back to false.
C11_StatusKnownPermanent ==
    /\ [](lastOp = "init" => ~is_stream_status_known)
    /\ [][(~is_stream_status_known /\ is_stream_status_known')
             => lastOp' \in {"tick_live", "tick_clear"}]_vars
    /\ [][lastOp' \in {"tick_live", "tick_clear"}
             => is_stream_status_known']_vars
    /\ [][is_stream_status_known => is_stream_status_known']_vars

\* a tick failed after an earlier poll had succeeded and the status is still
\* known
C11_Witness == is_stream_status_known /\ lastOp = "tick_fail" /\ ticks = 2

\* C19: a step of the monitor never changes manual_paused; it changes the
\* queue only in a successful tick that found a live channel, and then it
\* empties it; a successful tick with an empty live set and a failed tick
\* leave the queue contents and order as they were.
C19_MonitorOnlyFlushesOnLive ==
    [][(monPc # "none" /\ <<monPc, monIdx>>' # <<monPc, monIdx>>) =>
          /\ is_relay_paused' = is_relay_paused
          /\ (message_queue' # message_queue =>
                 lastOp' = "tick_live" /\ message_queue' = <<>>)
          /\ (lastOp' \in {"tick_clear", "tick_fail"} =>
                 message_queue' = message_queue)]_vars

\* a successful tick with an empty live set ended with messages still queued
C19_Witness == lastOp = "tick_clear" /\ Len(message_queue) >= 2

\* C17 as stated: the cached token is returned without an exchange iff a
\* token is cached and the time of the call is before the stored expiry
\* minus 60.
C17_CachedIffBeforeExpiryMinusMargin ==
    tokResult.how # "none" =>
        ((tokResult.how = "cached") <=>
            (tokResult.hadToken
             /\ tokResult.at < tokResult.priorExpiry - TokenMargin))

\* C17 amended: the cached token is returned without an exchange iff a token
\* is cached and the time of the call is before the stored expiry, where the
\* stored expiry is exchange_time + max(expires_in - 60, 0); in every other
\* case exactly one exchange is performed, and when it succeeds the new
\* token and the new expiry are stored; a failed exchange stores nothing.
C17_CachedIffBeforeStoredExpiry ==
    /\ [](tokResult.how = "cached" =>
             /\ tokResult.hadToken
             /\ tokResult.at < tokResult.priorExpiry
             /\ tokResult.token = tokResult.priorToken
             /\ tokResult.exch = 0)
    /\ [](tokResult.how \in {"pending", "exchanged", "raised"} =>
             /\ ~(tokResult.hadToken /\ tokResult.at < tokResult.priorExpiry)
             /\ tokResult.exch = 1)
    /\ [][tokResult'.how = "exchanged" =>
             /\ app_access_token' = tokResult'.token
             /\ app_access_token' # tokResult'.priorToken
             /\ app_access_token_expires_at' =
                   tokResult'.at
                   + (IF tokResult'.expires_in - 60 > 0
                      THEN tokResult'.expires_in - 60 ELSE 0)]_vars
    /\ [][tokResult'.how \in {"cached", "raised", "pending"} =>
             UNCHANGED <<app_access_token, app_access_token_expires_at>>]_vars
    /\ [][exchanges' # exchanges =>
             exchanges' = exchanges + 1 /\ tokResult'.how = "pending"]_vars

\* the cached token was returned less than 60 before its stored expiry
C17_Witness ==
    /\ tokResult.how = "cached"
    /\ tokResult.at + TokenMargin >= tokResult.priorExpiry
    /\ exchanges >= 2

\* the entries the well-formed positions of the items stand for, in tag
\* order: a position counts when its text is <int>-<int> and the group it
\* belongs to has a ':'
RECURSIVE C20_Expected(_)
C20_Expected(items) ==
    IF items = <<>> THEN <<>>
    ELSE LET n == Len(items)
             it == items[n]
             opener == CHOOSE k \in 1..n :
                          /\ items[k].join # "same"
                          /\ \A j \in (k + 1)..n : items[j].join = "same"
             before == C20_Expected(SubSeq(items, 1, n - 1))
         IN  IF it.join # "bare" /\ it.pos.wf /\ items[opener].join = "group"
             THEN Append(before, [start |-> it.pos.start, end |-> it.pos.end,
                                  emote_id |-> items[opener].id])
             ELSE before

\* number of occurrences of e in s
C20_Count(s, e) == Cardinality({i \in 1..Len(s) : s[i] = e})

\* C20: for every emotes tag the spans the loop processes are in
\* non-decreasing order of start; parsing never raises; and when the loop is
\* over, the processed spans are exactly the well-formed positions of the
\* well-formed groups of the tag (each as often as it occurs): a malformed
\* group or position removes nothing but itself.
C20_SpansSortedAndComplete ==
    /\ ~fmtRaised
    /\ \A i, j \in 1..Len(fmtProcessed) :
          i < j => fmtProcessed[i].start <= fmtProcessed[j].start
    /\ fmtPc = "done" =>
          \A e \in Range(fmtProcessed) \cup Range(C20_Expected(tagItems)) :
              C20_Count(fmtProcessed, e) = C20_Count(C20_Expected(tagItems), e)

\* a tag whose group has a malformed position between two well-formed ones
\* that are out of order: both spans were processed, in order of start
C20_Witness ==
    /\ fmtPc = "done"
    /\ Len(tagItems) = 3
    /\ tagItems[2].join = "same" /\ ~tagItems[2].pos.wf
    /\ tagItems[3].join = "same"
    /\ Len(fmtProcessed) = 2
    /\ C20_Expected(tagItems)[1].start > C20_Expected(tagItems)[2].start

\* C12 as stated: a provisioning failure while a span is substituted (the
\* download raising, every candidate rejected, the creation rejected) is not
\* propagated: ensure returned None, the formatted message carries the
\* original substring of the span as text, and the relay loop goes on to
\* send it.
C12_ProvisioningFailureDegrades ==
    asCall.how \in {"raised", "none", "create_failed"} =>
        /\ asCall.result = 0
        /\ asPc = "send"
        /\ asParts[1] = TextPart(asMsg.name)

\* C13 as stated: when the cache has no entry for the key but the guild
\* still holds an emoji an earlier call created for the same token id and
\* display name, the call finds it by the name search: no download, no
\* creation, the reference of that emoji, and the cache entry is set.
C13_RestartFindsAssetByName ==
    (asCall.how # "nocall" /\ ~asCall.hadKey /\ asCall.prior # {}) =>
        /\ asCall.how = "search"
        /\ asCall.downloads = 0
        /\ asCall.creates = 0
        /\ asCall.result \in asCall.prior
        /\ asCall.key \in DOMAIN emoji_cache
        /\ emoji_cache[asCall.key] = asCall.result

\* create_asset invocations of a call that ended as `how`
C14_Creates(how) == IF how \in {"created", "create_failed"} THEN 1 ELSE 0

C15_CatalogTokenProvisioned ==
    asPc = "send" =>
        \A i \in 1..Len(asMsg.tail) :
            asMsg.tail[i] \in DOMAIN custom_emotes =>
                LET part == asParts[i + (IF asMsg.emote_id = "" THEN 0 ELSE 1)]
                    url == custom_emotes[asMsg.tail[i]]
                IN  \/ /\ part.kind = "emoji"
                       /\ ("custom:" \o LowerName(asMsg.tail[i]) \o ":" \o url)
                             \in DOMAIN emoji_cache
                    \/ /\ part.kind = "text"
                       /\ \E k \in 1..Len(asTried) : asTried[k].url = url

\* the resolutions in the order the claim gives
C16_Resolutions == <<"3.0", "2.0", "1.0">>

\* a fetched candidate is usable: its status is one of okStatus and its body
\* is at most 256 KiB
C16_Usable(t, okStatus) == t.status \in okStatus /\ t.size <= 262144

\* C16 for the statuses of okStatus: for a platform emote without cached or
\* existing emoji the candidates are fetched in the order 3.0, 2.0, 1.0;
\* every candidate before the one in use was not usable and the one in use
\* is; when all three are rejected ensure returns None, create_asset is not
\* invoked, the cache entry of the key is as before, and the formatted
\* message carries the original text of the span.
C16_Rule(okStatus) ==
    asCall.how \in {"pending", "none", "created", "create_failed"} =>
        /\ \A i \in 1..Len(asTried) :
              asTried[i].url = "emoticons/v2/" \o asCall.emote_id
                               \o "/default/dark/" \o C16_Resolutions[i]
        /\ \A i \in 1..(Len(asTried) - 1) : ~C16_Usable(asTried[i], okStatus)
        /\ asPc = "get" =>
              \A i \in 1..Len(asTried) : ~C16_Usable(asTried[i], okStatus)
        /\ (asPc = "create" \/ asCall.how \in {"created", "create_failed"}) =>
              /\ asTried # <<>>
              /\ C16_Usable(asTried[Len(asTried)], okStatus)
        /\ asCall.how = "none" =>
              /\ Len(asTried) = 3
              /\ \A i \in 1..3 : ~C16_Usable(asTried[i], okStatus)
              /\ asCall.result = 0
              /\ asCall.creates = 0
              /\ (asCall.key \in DOMAIN emoji_cache) = asCall.hadKey
              /\ asCall.hadKey => emoji_cache[asCall.key] = asCall.cached
              /\ asPc = "send"
              /\ asParts[1] = TextPart(asMsg.name)

\* C16 as stated: a candidate is usable when it is fetched with a 2xx status
\* and is at most 256 KiB.
C16_FirstUsable2xxCandidate == C16_Rule(200..299)

\* C16 amended: a candidate is usable when it is fetched with status 200 and
\* is at most 256 KiB.
C16_FirstUsable200Candidate == C16_Rule({200})

\* all three candidates were rejected, one for its size and one for its
\* status, and the message is ready with the text of the span
C16_Witness ==
    /\ asPc = "send"
    /\ asCall.how = "none"
    /\ \E i \in 1..Len(asTried) :
          asTried[i].status = 200 /\ asTried[i].size > 262144
    /\ \E i \in 1..Len(asTried) : asTried[i].status # 200
    /\ asParts[1] = TextPart(asMsg.name)

\* C18 as stated: when close() has ended, whatever the state it was called
\* in (a failed relay task or chat-source task included), the three tasks
\* have terminated, the chat-source session is closed and no HTTP session is
\* left open.
C18_ShutdownTerminatesAndCloses ==
    clPc \in {"done", "raised"} =>
        /\ twitch_task = "None" \/ TaskEnded(twitch_task)
        /\ relay_task = "None" \/ TaskEnded(relay_task)
        /\ stream_monitor_task = "None" \/ TaskEnded(stream_monitor_task)
        /\ twitch_client = "closed"
        /\ http_session # "open"

\* C23: whenever the relay is paused or live-blocked, the message queue is
\* empty (the queue does not count a message the relay loop has already
\* taken): a pause empties it in the same step, every live tick empties it,
\* and ingestion adds nothing while either flag is set.
C23_QueueEmptyWhileSuppressed ==
    (is_relay_paused \/ is_live_blocked) => message_queue = <<>>

\* a pause has just removed a queued message that was never taken by the
\* relay loop, and the queue is empty
C23_Witness ==
    /\ lastOp = "pause"
    /\ is_relay_paused
    /\ message_queue = <<>>
    /\ \E i \in 1..nextId :
          dequeues[i] = 1 /\ i \notin Range(sendLog) /\ relay.id # i

\* a step of start_command: one more command, ending as a resume or as a
\* resume without effect
C24_IsStartStep ==
    commands' = commands + 1 /\ lastOp' \in {"resume", "resume_noop"}

\* C24: the resume command changes nothing of the relay state when the
\* stream status has never been fetched or when the relay is not paused;
\* otherwise it clears only the pause flag, leaves the live-block flag and
\* the queue as they are, and recomputes the gate from the three flags.
C24_ResumeFrame ==
    [][C24_IsStartStep =>
          IF ~is_stream_status_known \/ ~is_relay_paused
          THEN /\ lastOp' = "resume_noop"
               /\ UNCHANGED <<is_relay_paused, is_live_blocked,
                              is_stream_status_known, relay_gate,
                              message_queue>>
          ELSE /\ lastOp' = "resume"
               /\ is_relay_paused' = FALSE
               /\ UNCHANGED <<is_live_blocked, is_stream_status_known,
                              message_queue>>
               /\ relay_gate' = (is_stream_status_known' /\ ~is_relay_paused'
                                    /\ ~is_live_blocked')]_vars

\* the relay was paused before the first successful poll and a resume
\* command has just left it paused
C24_Witness ==
    /\ lastOp = "resume_noop"
    /\ is_relay_paused
    /\ ~is_stream_status_known
    /\ commands = 2

\* C26: every message put on the queue, and every message the relay loop
\* formats and sends, comes from a channel whose lower-cased name is
\* "hikakin" (an event from any other channel leaves the queue as it is),
\* and _safe_text leaves a mention in such a message as it is.
C26_OnlyTrustedChannelRelayed ==
    /\ \A k \in DOMAIN message_queue :
          Lower(message_queue[k].channel_name) = "hikakin"
    /\ relay # NoRelay =>
          /\ Lower(relay.channel_name) = "hikakin"
          /\ SafeText("@everyone", relay.channel_name) = "@everyone"

\* the second event, tagged with the mixed-case name of the trusted channel,
\* is about to be sent, and the first event was neither queued nor sent
C26_Witness ==
    /\ relayPc = "send"
    /\ relay.id = 2
    /\ relay.channel_name = "Hikakin"
    /\ dequeues[1] = 0
    /\ message_queue = <<>>

\* C25: over any number of ready events, overlapping ones included, each of
\* the three tasks is created at most once, and a relay task that has
\* terminated stays in its field and is never replaced by a new one.
C25_AtMostOneTaskOfEachKind ==
    [][/\ rdCreated'.twitch <= 1
       /\ rdCreated'.relay <= 1
       /\ rdCreated'.monitor <= 1
       /\ relay_task = "failed" =>
             relay_task' = "failed" /\ rdCreated'.relay = rdCreated.relay]_vars

\* three handlers have ended, two of them were in the warm-up at the same
\* time, the relay task was created once and has terminated
C25_Witness ==
    /\ rdOverlap
    /\ Len(rdPc) = 3
    /\ \A h \in DOMAIN rdPc : rdPc[h] = "done"
    /\ rdCreated = [twitch |-> 1, relay |-> 1, monitor |-> 1]
    /\ relay_task = "failed"

\* the tokens of a content that are names of the catalog
CatalogTokens(content) ==
    {k \in DOMAIN SplitTokens(content) :
        Str(SplitTokens(content)[k]) \in DOMAIN custom_emotes}

\* C21: when the formatter has returned for a message whose tag yielded no
\* span and whose tokens match nothing in the catalog, the text returned is
\* "<display_name>: " followed by the raw content, character for character.
C21_NoSpanNoCatalogIsIdentity ==
    (/\ sbPc = "done"
     /\ \A k \in DOMAIN sbLog : sbLog[k].kind # "span"
     /\ CatalogTokens(sbMsg.content) = {})
    => FormatResult(sbMsg.display_name, sbParts)
         = sbMsg.display_name \o <<":", " ">> \o sbMsg.content

\* the content "  hi " (two leading spaces, one trailing) with a tag that
\* yields no span has been formatted
C21_Witness ==
    /\ sbPc = "done"
    /\ sbMsg.content = <<" ", " ", "h", "i", " ">>
    /\ sbMsg.emotes_tag = <<"2", "5", ":", "x", "-", "1">>
    /\ sbLog = <<[kind |-> "text", text |-> sbMsg.content,
                  out |-> sbMsg.content]>>

\* the formatter has returned for the tag "25:0-4/1902:6-10" on the content
\* "Kappa LUL text"
C22_ExampleDone ==
    /\ sbPc = "done"
    /\ sbMsg.content = KappaContent
    /\ sbMsg.emotes_tag = KappaTagTo10

C22_Spans ==
    SortedByStart(ParseEmotesTag(sbMsg.emotes_tag).entries)

\* the substrings replaced and the texts passed through, in order
C22_Texts(kind) ==
    LET sel == SelectSeq(sbLog, LAMBDA x : x.kind = kind)
    IN  [k \in DOMAIN sel |-> sel[k].text]
C22_Replaced == C22_Texts("span")
C22_Passed == C22_Texts("text")

\* every text passed through is in the output as it was in the content
C22_PassedUnchanged ==
    \A k \in DOMAIN sbLog :
        sbLog[k].kind = "text" => sbLog[k].out = sbLog[k].text

C22_SpansAsStated ==
    C22_Spans = << [start |-> 0, end |-> 4, emote_id |-> <<"2", "5">>],
                   [start |-> 6, end |-> 10,
                    emote_id |-> <<"1", "9", "0", "2">>] >>

\* C22 as stated: for the example the spans are (0,4,"25") and
\* (6,10,"1902"), the substrings replaced are "Kappa" and "LUL", and the
\* texts passed through are " " and " text".
C22_ReplacesKappaAndLUL ==
    C22_ExampleDone =>
        /\ C22_SpansAsStated
        /\ C22_Replaced = << <<"K", "a", "p", "p", "a">>, <<"L", "U", "L">> >>
        /\ C22_Passed = << <<" ">>, <<" ", "t", "e", "x", "t">> >>
        /\ C22_PassedUnchanged

\* C22 amended: for the example the spans are (0,4,"25") and (6,10,"1902"),
\* the substrings replaced are "Kappa" and "LUL t" (the characters 6 to 10),
\* and the texts " " and "ext" are passed through unchanged.
C22_ReplacesKappaAndLULt ==
    C22_ExampleDone =>
        /\ C22_SpansAsStated
        /\ C22_Replaced
             = << <<"K", "a", "p", "p", "a">>, <<"L", "U", "L", " ", "t">> >>
        /\ C22_Passed = << <<" ">>, <<"e", "x", "t">> >>
        /\ C22_PassedUnchanged

\* the example has been formatted: the first span became an emoji created
\* for it, the second was left as text
C22_Witness ==
    /\ C22_ExampleDone
    /\ FormatResult(sbMsg.display_name, sbParts)
         = <<"b", "o", "b", ":", " ", "<:tw_kappa:1>", " ",
             "L", "U", "L", " ", "t", "e", "x", "t">>

====
